---- MODULE Spec2Model ----
(***************************************************************************)
(* A model of the capture -> match -> inject pipeline of Endfield-AI:      *)
(* window resolution (interaction/window_manager.py, input/foreground.py), *)
(* frame capture with its cache (interaction/capture.py), the template     *)
(* store (vision/templates.py) and the serialized, focus-guarded input     *)
(* operations of InteractionCore (interaction/core.py, decorators.py).     *)
(*                                                                         *)
(* Each subsystem has its own specification (SpecWindow, SpecBackends,     *)
(* SpecTemplates, SpecCapture, SpecCaptureWindow, SpecOps) over the        *)
(* module's variables; a specification leaves the variables of the other   *)
(* subsystems at their initial values.                                     *)
(*                                                                         *)
(* Time is counted in ticks of 0.25 s (TicksPerSecond): two events in the  *)
(* same tick are less than 1/max_fps apart.  Strings are tuples of         *)
(* one-character strings so that lower() and the substring test can be     *)
(* computed.                                                               *)
(***************************************************************************)
EXTENDS Integers, Sequences, FiniteSets, TLC

VARIABLES
    \* ---- the operating system's windows (the environment)
    windows,        \* top-level windows in EnumWindows order
    nextHwnd,       \* the handle the next window opened gets
    foreground,     \* GetForegroundWindow(): a handle, or 0
    \* ---- interaction/window_manager.py
    hm_handle,      \* WindowHandleManager._handle (None when unset)
    wm_result,      \* outcome of the last resolver call made with the windows as they are
    \* ---- input/foreground.py, input/screenshot.py
    fi_window,      \* ForegroundInput.window (WindowInfo, None before __init__)
    sc_window,      \* ScreenCapture.window  (WindowInfo, None before __init__)
    lastUse,        \* the handle / rectangle used by the last capture or inject call
                    \* made with the windows as they are
    \* ---- vision/templates.py
    root_dir,       \* TemplateStore.root_dir
    templates,      \* TemplateStore._templates
    registered,     \* history: the arguments of the last register() of each name
    tmpl_result,    \* outcome of the last get() since the last register()
    \* ---- interaction/capture.py: one WindowsCapture and its callers
    now,                \* time.time(), in ticks
    screen,             \* the pixels the window shows
    capture_cache,      \* WindowsCapture._capture_cache (its pixels)
    last_capture_time,  \* WindowsCapture._last_capture_time
    fps_timer,          \* WindowsCapture._fps_timer
    cache_lock,         \* holder of WindowsCapture._capture_cache_lock
    cap_pc,             \* where each calling thread is inside capture()
    cap_loc,            \* the locals of each thread's call of capture()
    cap_ret,            \* what the call that has just finished returned or raised
    cache_gen,          \* history: number of frames stored in the cache so far
    cache_born,         \* history: start time of the call that produced the cached frame
    last_done,          \* history: the last call that returned a frame
    os_started,         \* history: when the last OS capture was started
    os_gap,             \* history: ticks between the OS capture just started and the one before
    calls,              \* number of capture() calls made
    \* ---- interaction/core.py: one InteractionCore and the threads using it
    op_lock,            \* holder of InteractionCore._operation_lock
    key_status,         \* InteractionCore._key_status
    key_freeze,         \* InteractionCore._key_freeze
    op_pc,              \* where each thread is inside an operation
    op_loc,             \* the operation each thread is in, and what is left of it
    injected,           \* the input-controller call that has just been made
    op_done,            \* the operation that has just returned or raised
    ops,                \* number of operations called
    \* ---- vision/, interaction/image_matcher.py: calls of functions that keep no
    \* state apart from the image cache of load_image
    call_args,          \* the arguments of the call under study
    call_ret,           \* what the call returned or raised
    image_cache,        \* the lru_cache of TemplateStore.load_image, oldest entry first
    files,              \* the image files on disk: what cv2.imread decodes from each path
    last_used,          \* history: when each cached path was last hit or inserted
    loads,              \* number of load_image calls made
    \* ---- the keyboard as the game window sees it
    key_held,           \* whether each key is down: the last WM_KEYDOWN / WM_KEYUP posted
    key_frozen,         \* whether each key has a freeze_key that no unfreeze_key followed
    \* ---- src/utils/config_manager.py
    config,             \* ConfigManager.config
    \* ---- vision/detectors.py, interaction/core.py: a wait in progress
    wait_loc            \* the locals of the running wait_for or wait_until_stable

\* Python's None where a string is expected (an exception name, an api name)
None == "None"
\* Python's None where a window handle is expected: no window has handle 0
NoHandle == 0

winVars  == <<windows, nextHwnd, foreground>>
wmVars   == <<hm_handle, wm_result>>
fgVars   == <<fi_window, sc_window, lastUse>>
tmplVars == <<root_dir, templates, registered, tmpl_result>>

capVars  == <<now, screen, capture_cache, last_capture_time, fps_timer, cache_lock,
              cap_pc, cap_loc, cap_ret, cache_gen, cache_born, last_done,
              os_started, os_gap, calls>>

opVars   == <<op_lock, key_status, key_freeze, op_pc, op_loc, injected, op_done, ops>>

visVars  == <<call_args, call_ret, image_cache, files, last_used, loads>>

utilVars == <<key_held, key_frozen, config, wait_loc>>

vars == <<winVars, wmVars, fgVars, tmplVars, capVars, opVars, visVars, utilVars>>

-----------------------------------------------------------------------------
(* Strings                                                                 *)

UpperChars == <<"A", "B", "C", "D", "E", "F", "G", "H", "I", "J", "K", "L", "M",
                "N", "O", "P", "Q", "R", "S", "T", "U", "V", "W", "X", "Y", "Z">>
LowerChars == <<"a", "b", "c", "d", "e", "f", "g", "h", "i", "j", "k", "l", "m",
                "n", "o", "p", "q", "r", "s", "t", "u", "v", "w", "x", "y", "z">>

\* str.lower() on one character
LowerChar(c) ==
    IF \E i \in DOMAIN UpperChars : UpperChars[i] = c
    THEN LowerChars[CHOOSE i \in DOMAIN UpperChars : UpperChars[i] = c]
    ELSE c

\* str.lower()
Lower(s) == [i \in DOMAIN s |-> LowerChar(s[i])]

\* Python's `sub in s` on strings
Contains(sub, s) ==
    \E off \in 0..(Len(s) - Len(sub)) :
        \A i \in 1..Len(sub) : s[off + i] = sub[i]

\* WINDOW_CONFIG.window_titles (core/config.py); the eight characters of the
\* second title are written by name, none of them has a lower-case form
window_titles ==
    << <<"A", "r", "k", "n", "i", "g", "h", "t", "s", ":", " ",
         "E", "n", "d", "f", "i", "e", "l", "d">>,
       <<"Ming", "Ri", "Fang", "Zhou", "Colon", "Zhong", "Mo", "Di">> >>

\* target_titles = [title.lower() for title in WINDOW_CONFIG.window_titles]
target_titles == [i \in DOMAIN window_titles |-> Lower(window_titles[i])]

\* any(target_title in title.lower() for target_title in target_titles)
TitleMatchesSensitive(title) ==
    \E i \in DOMAIN target_titles : Contains(target_titles[i], title)

TitleMatches(title) ==
    \E i \in DOMAIN target_titles : Contains(target_titles[i], Lower(title))

\* The titles the environment's windows may carry.
TitleText ==
    << <<"A", "r", "k", "n", "i", "g", "h", "t", "s", ":", " ",
         "E", "n", "d", "f", "i", "e", "l", "d">>,
       <<"A", "R", "K", "N", "I", "G", "H", "T", "S", ":", " ",
         "E", "N", "D", "F", "I", "E", "L", "D", " ", "-", " ", "1">>,
       <<"N", "o", "t", "e", "p", "a", "d">>,
       <<"E", "n", "d", "f", "i", "e", "l", "d">>,
       <<>> >>

TitleIds == DOMAIN TitleText

-----------------------------------------------------------------------------
(* The environment: top-level windows                                      *)

MaxWindows == 2     \* windows open at the same time
MaxHwnd    == 2     \* handles the OS hands out in one run of SpecBackends
MaxLeft    == 1     \* screen positions 0..MaxLeft a window may be moved to

Window(h, t, v, l) == [hwnd |-> h, title |-> t, visible |-> v, left |-> l]

\* every arrangement of at most n windows, handles numbered in enumeration order
RECURSIVE WindowLists(_)
WindowLists(n) ==
    IF n = 0 THEN {<<>>}
    ELSE LET shorter == WindowLists(n - 1)
         IN  shorter \cup
             { Append(ws, Window(Len(ws) + 1, t, v, 0)) :
                 ws \in {x \in shorter : Len(x) = n - 1},
                 t \in TitleIds, v \in BOOLEAN }

\* win32gui.IsWindow(hwnd)
IsWindow(h) == \E i \in DOMAIN windows : windows[i].hwnd = h

WindowOf(h) == windows[CHOOSE i \in DOMAIN windows : windows[i].hwnd = h]

\* win32gui.GetWindowText(hwnd): the empty string for a handle that is no window
GetWindowText(h) == IF IsWindow(h) THEN TitleText[WindowOf(h).title] ELSE <<>>

RemoveAt(s, i) == [j \in 1..(Len(s) - 1) |-> IF j < i THEN s[j] ELSE s[j + 1]]

\* the user or the game closes a window
CloseWindow ==
    /\ \E i \in DOMAIN windows :
        /\ windows' = RemoveAt(windows, i)
        /\ foreground' = IF foreground = windows[i].hwnd THEN NoHandle ELSE foreground
    /\ UNCHANGED nextHwnd

\* a window opens (the game is started again, or another program) with a new handle
OpenWindow(titles) ==
    /\ Len(windows) < MaxWindows
    /\ nextHwnd <= MaxHwnd
    /\ \E t \in titles :
        windows' = Append(windows, Window(nextHwnd, t, TRUE, 0))
    /\ nextHwnd' = nextHwnd + 1
    /\ UNCHANGED foreground

\* a window is moved on the screen
MoveWindow ==
    /\ \E i \in DOMAIN windows, l \in 0..MaxLeft :
        /\ l # windows[i].left
        /\ windows' = [windows EXCEPT ![i].left = l]
    /\ UNCHANGED <<nextHwnd, foreground>>

\* a window is hidden or shown
ShowWindow ==
    /\ \E i \in DOMAIN windows :
        windows' = [windows EXCEPT ![i].visible = ~windows[i].visible]
    /\ UNCHANGED <<nextHwnd, foreground>>

-----------------------------------------------------------------------------
(* interaction/window_manager.py: WindowHandleManager                      *)

\* A resolution that forgets the visibility test.
RECURSIVE EnumCallbackAnyWindow(_)
EnumCallbackAnyWindow(ws) ==
    IF ws = <<>> THEN NoHandle
    ELSE IF TitleMatches(TitleText[Head(ws).title]) THEN Head(ws).hwnd
    ELSE EnumCallbackAnyWindow(Tail(ws))

\* The EnumWindows callback of _find_window_by_title, applied to the windows in
\* enumeration order: an invisible window is skipped, the first visible window
\* whose lower-cased title contains a target title stops the enumeration.
RECURSIVE _find_window_by_title(_)
_find_window_by_title(ws) ==
    IF ws = <<>> THEN NoHandle
    ELSE IF ~Head(ws).visible THEN _find_window_by_title(Tail(ws))
    ELSE IF TitleMatches(TitleText[Head(ws).title]) THEN Head(ws).hwnd
    ELSE _find_window_by_title(Tail(ws))

\* _refresh_handle: the handle held after the call, and the exception raised
_refresh_handle(ws, cached) ==
    LET handle == _find_window_by_title(ws)
    IN  IF handle = NoHandle
        THEN [handle |-> cached, exc |-> "WindowNotFoundError", enumerated |-> 1]
        ELSE [handle |-> handle, exc |-> None, enumerated |-> 1]

\* A get_handle that resolves the window afresh on every call.
get_handle_always_fresh(ws, cached) ==
    _refresh_handle(ws, cached)

\* get_handle: refreshes only when the cached handle is unset or no live window
get_handle(ws, cached) ==
    IF cached = NoHandle \/ ~(\E i \in DOMAIN ws : ws[i].hwnd = cached)
    THEN _refresh_handle(ws, cached)
    ELSE [handle |-> cached, exc |-> None, enumerated |-> 0]

NoResult == [op |-> None, exc |-> None, ret |-> NoHandle, before |-> NoHandle,
             after |-> NoHandle, enumerated |-> 0]

\* a call of refresh_window_handle()
refresh_window_handle ==
    LET r == _refresh_handle(windows, hm_handle)
    IN  /\ hm_handle' = r.handle
        /\ wm_result' = [op |-> "refresh_handle", exc |-> r.exc, ret |-> NoHandle,
                         before |-> hm_handle, after |-> r.handle,
                         enumerated |-> r.enumerated]

\* a call of get_window_handle()
get_window_handle ==
    LET r == get_handle(windows, hm_handle)
    IN  /\ hm_handle' = r.handle
        /\ wm_result' = [op |-> "get_handle", exc |-> r.exc,
                         ret |-> IF r.exc = None THEN r.handle ELSE NoHandle,
                         before |-> hm_handle, after |-> r.handle,
                         enumerated |-> r.enumerated]

-----------------------------------------------------------------------------
(* input/foreground.py, input/screenshot.py: the direct backend            *)

WindowInfo(w) == [handle |-> w.hwnd, left |-> w.left]
\* no WindowInfo: the attribute is unset, or find_game_window raised
NoWindow == [handle |-> NoHandle, left |-> 0]

\* _enum_windows(): the visible windows that have a title, with their rectangles
_enum_windows(ws) ==
    SelectSeq(ws, LAMBDA w : w.visible /\ TitleText[w.title] # <<>>)

\* the loop of find_game_window over the candidates
RECURSIVE FirstMatch(_)
FirstMatch(cands) ==
    IF cands = <<>> THEN NoWindow
    ELSE IF TitleMatches(TitleText[Head(cands).title]) THEN WindowInfo(Head(cands))
    ELSE FirstMatch(Tail(cands))

\* find_game_window(): a WindowInfo, NoWindow when it raises WindowNotFoundError
find_game_window(ws) == FirstMatch(_enum_windows(ws))

\* WindowInfo.client_to_screen, x coordinate
client_to_screen(win, x) == win.left + x

NoUse == [api |-> None, hwnd |-> NoHandle, left |-> 0]

\* a direct call of find_game_window()
FindGameWindow ==
    LET r == find_game_window(windows)
    IN  /\ wm_result' = [op |-> "find_game_window",
                         exc |-> IF r = NoWindow THEN "WindowNotFoundError" ELSE None,
                         ret |-> r.handle, before |-> hm_handle, after |-> hm_handle,
                         enumerated |-> 1]
        /\ UNCHANGED hm_handle

\* ForegroundInput.__init__(window=None)
ForegroundInput_init ==
    /\ fi_window = NoWindow
    /\ fi_window' = find_game_window(windows)
    /\ UNCHANGED <<hm_handle, sc_window, lastUse>>

\* ForegroundInput.move_to(x, y, relative=False): _screen_pos uses self.window
ForegroundInput_move_to ==
    /\ fi_window # NoWindow
    /\ lastUse' = [api |-> "ForegroundInput.move_to", hwnd |-> fi_window.handle,
                   left |-> client_to_screen(fi_window, 0)]
    /\ UNCHANGED <<hm_handle, fi_window, sc_window>>

\* ScreenCapture.__init__(window=None)
ScreenCapture_init ==
    /\ sc_window = NoWindow
    /\ sc_window' = find_game_window(windows)
    /\ UNCHANGED <<hm_handle, fi_window, lastUse>>

\* ScreenCapture.grab(region=None): _get_capture_region uses self.window
ScreenCapture_grab ==
    /\ sc_window # NoWindow
    /\ lastUse' = [api |-> "ScreenCapture.grab", hwnd |-> sc_window.handle,
                   left |-> sc_window.left]
    /\ UNCHANGED <<hm_handle, fi_window, sc_window>>

\* InteractionNormal.move_to(x, y, relative=False): the handle is fetched through
\* get_window_handle() and the rectangle through GetWindowRect in the call itself
InteractionNormal_move_to ==
    LET r == get_handle(windows, hm_handle)
    IN  /\ hm_handle' = r.handle
        /\ lastUse' = IF r.exc = None
                      THEN [api |-> "InteractionNormal.move_to", hwnd |-> r.handle,
                            left |-> WindowOf(r.handle).left + 0]
                      ELSE NoUse
        /\ UNCHANGED <<fi_window, sc_window>>

-----------------------------------------------------------------------------
(* vision/templates.py: TemplateStore                                       *)

\* Paths are tuples of characters.  The program runs on Windows: os.path is ntpath.
PathSeps == {"/", "\\"}

\* os.path.join(root, rel) for paths without a drive letter: a rooted second
\* path replaces the first; otherwise the two are joined with a backslash unless
\* the first is empty or already ends with a separator.
os_path_join(root, rel) ==
    IF rel # <<>> /\ rel[1] \in PathSeps THEN rel
    ELSE IF root = <<>> \/ root[Len(root)] \in PathSeps THEN root \o rel
    ELSE root \o <<"\\">> \o rel

\* the arguments the callers pass
RootDirs   == { <<"t">>, <<"t", "/">>, <<>> }
RelPaths   == { <<"p", ".", "p", "n", "g">>, <<"/", "q">> }
Names      == {"x", "y"}
\* thresholds in hundredths: 0.8 (the default), 0.9, and two values outside [0, 1]
Thresholds == {80, 90, 150, -10}
\* roi: None is <<>>, Rect(x, y, width, height) a 4-tuple
Rois       == { <<>>, <<1, 1, 2, 2>> }

Template(name, path, threshold, roi) ==
    [name |-> name, path |-> path, threshold |-> threshold, roi |-> roi]

NoTemplates == [n \in {} |-> 0]
NoGet == [name |-> None, exc |-> None, ret |-> <<>>]

\* a register() that keeps the first descriptor of a name (dict.setdefault)
RegisterKeepFirst(tpls, root, name, relative_path, threshold, roi) ==
    IF name \in DOMAIN tpls THEN tpls
    ELSE [n \in DOMAIN tpls \cup {name} |->
             IF n = name
             THEN Template(name, os_path_join(root, relative_path), threshold, roi)
             ELSE tpls[n]]

\* TemplateStore.register: self._templates[name] = Template(...)
register(tpls, root, name, relative_path, threshold, roi) ==
    LET full_path == os_path_join(root, relative_path)
        tmpl == Template(name, full_path, threshold, roi)
    IN  [n \in DOMAIN tpls \cup {name} |-> IF n = name THEN tmpl ELSE tpls[n]]

\* TemplateStore.get: the descriptor, or KeyError
get(tpls, name) ==
    IF name \notin DOMAIN tpls
    THEN [name |-> name, exc |-> "KeyError", ret |-> <<>>]
    ELSE [name |-> name, exc |-> None, ret |-> <<tpls[name]>>]

Register ==
    \E name \in Names, rel \in RelPaths, thr \in Thresholds, roi \in Rois :
        /\ templates' = register(templates, root_dir, name, rel, thr, roi)
        /\ registered' = [n \in DOMAIN registered \cup {name} |->
                             IF n = name
                             THEN [relative_path |-> rel, threshold |-> thr, roi |-> roi]
                             ELSE registered[n]]
        /\ tmpl_result' = NoGet
        /\ UNCHANGED root_dir

Get ==
    \E name \in Names :
        /\ tmpl_result' = get(templates, name)
        /\ UNCHANGED <<root_dir, templates, registered>>

\* titles of the game and of another program, for the windows that open
GameTitleIds == {1}
OtherTitleIds == {3}

-----------------------------------------------------------------------------
(* interaction/capture.py: WindowsCapture                                  *)

\* time.time() is counted in ticks of 1 / TicksPerSecond seconds (0.25 s)
TicksPerSecond == 4
\* InteractionCore.RECAPTURE_LIMIT = 0.5 s
RECAPTURE_LIMIT == 2
\* WindowsCapture(max_fps=30)
max_fps == 30
\* max_retries = 3
max_retries == 3
\* time.sleep(0.5) after a failed attempt
SleepOnError == 2
\* time.sleep(0.1) after a frame of the wrong shape, rounded up to one tick
SleepOnShape == 1

StartTime == 3      \* the clock when the program starts (later than any limit)
Horizon   == 4      \* ticks the clock runs for one caller
ShortHorizon == 1   \* ticks the clock runs for concurrent callers
MaxCalls  == 3      \* capture() calls made in one run

Threads == {"t1", "t2"}
NoThread == "free"
Pixels == {1, 2}
\* np.zeros((1080, 1920, 4)): the placeholder frame of the constructor
ZeroFrame == 0
\* the recapture_limit values callers pass: 0.0 (no cache) and RECAPTURE_LIMIT
Limits == {0, RECAPTURE_LIMIT}
\* client-area sizes GetClientRect may report (height, width)
ClientSizes == { <<1080, 1920>>, <<864, 1536>>, <<0, 0>> }

force_1920x1080 == TRUE

\* the TTL test of capture() made stricter by one tick
CacheFreshTooStrict(current_time, recapture_limit, last) ==
    recapture_limit > 0 /\ (current_time - last) < recapture_limit - 1

\* recapture_limit > 0.0 and (current_time - self._last_capture_time) < recapture_limit
CacheFresh(current_time, recapture_limit, last) ==
    recapture_limit > 0 /\ (current_time - last) < recapture_limit

\* a copy that loses the pixels
CacheCopyBlank(cache) == ZeroFrame

\* self._capture_cache.copy(): the same pixels in a new array
CacheCopy(cache) == cache

\* time_since_last < min_interval, with min_interval = 1.0 / self.max_fps seconds
FpsLimited(current_time, timer) ==
    (current_time - timer) * max_fps < TicksPerSecond

\* the shape of the array _get_capture returns for a client area (height, width)
CaptureShape(force, client) ==
    IF force THEN <<1080, 1920, 4>> ELSE <<client[1], client[2], 4>>

\* _check_shape (img is never None)
_check_shape(force, shape) ==
    IF force THEN shape = <<1080, 1920, 4>>
    ELSE Len(shape) = 3 /\ shape[3] = 4

\* _get_capture up to the handle: get_window_handle(), and on an exception
\* refresh_window_handle() followed by get_window_handle() again
CaptureHandle(ws, cached) ==
    LET first == get_handle(ws, cached)
    IN  IF first.exc = None THEN [handle |-> first.handle, exc |-> None, lookups |-> 1]
        ELSE LET again == _refresh_handle(ws, first.handle)
             IN  IF again.exc # None
                 THEN [handle |-> again.handle, exc |-> again.exc, lookups |-> 2]
                 ELSE [handle |-> again.handle, exc |-> None, lookups |-> 3]

NoFrame == [ok |-> FALSE, ct |-> 0, limit |-> 0, px |-> ZeroFrame, born |-> 0, gen |-> 0]

IdleLocals ==
    [ct |-> 0, limit |-> 0, attempt |-> 0, wake |-> 0, img |-> ZeroFrame,
     attempts |-> 0, os_calls |-> 0, lookups |-> 0, seen |-> 0,
     fresh_at_call |-> FALSE, limited_at_call |-> FALSE, first |-> NoFrame,
     stamp |-> 0]

NoReturn ==
    [kind |-> None, exc |-> None, px |-> ZeroFrame, gen |-> 0, born |-> 0, ct |-> 0,
     limit |-> 0, attempts |-> 0, os_calls |-> 0, lookups |-> 0, seen |-> 0,
     fresh_at_call |-> FALSE, limited_at_call |-> FALSE, first |-> NoFrame,
     prev |-> NoFrame, sleeps |-> 0, stamp |-> 0]

\* what a finished call leaves behind; prev is the frame returned before it
Return(l, kind, exc, px, gen, born, prev) ==
    [kind |-> kind, exc |-> exc, px |-> px, gen |-> gen, born |-> born, ct |-> l.ct,
     limit |-> l.limit, attempts |-> l.attempts, os_calls |-> l.os_calls,
     lookups |-> l.lookups, seen |-> l.seen, fresh_at_call |-> l.fresh_at_call,
     limited_at_call |-> l.limited_at_call, first |-> l.first, prev |-> prev,
     sleeps |-> l.attempt, stamp |-> l.stamp]

Done(r) == [ok |-> TRUE, ct |-> r.ct, limit |-> r.limit, px |-> r.px,
            born |-> r.born, gen |-> r.gen]

InitCapture ==
    /\ now = StartTime
    /\ screen = 1
    /\ capture_cache = ZeroFrame
    /\ last_capture_time = 0
    /\ fps_timer = 0
    /\ cache_lock = NoThread
    /\ cap_pc = [t \in Threads |-> "idle"]
    /\ cap_loc = [t \in Threads |-> IdleLocals]
    /\ cap_ret = NoReturn
    /\ cache_gen = 0
    /\ cache_born = 0
    /\ last_done = NoFrame
    /\ os_started = -1
    /\ os_gap = -1
    /\ calls = 0

\* The capture that wrote the value self._last_capture_time holds, counted as
\* the frames stored in the cache are: between the two assignments under the
\* lock (lines 206-208) the timestamp is still the previous capture's.
TimestampOf(pcs, gen) ==
    IF \E t \in Threads : pcs[t] = "store_time" THEN gen - 1 ELSE gen

\* capture(recapture_limit): the clock is read and the two tests that decide
\* whether the cache is used are made (lines 162-177)
capture_call(t) ==
    /\ cap_pc[t] = "idle"
    /\ calls < MaxCalls
    /\ \E recapture_limit \in Limits :
        LET current_time == now
            fresh == CacheFresh(current_time, recapture_limit, last_capture_time)
            limited == FpsLimited(current_time, fps_timer)
        IN  /\ cap_pc' = [cap_pc EXCEPT ![t] =
                            IF fresh THEN "cache_ttl"
                            ELSE IF limited THEN "cache_fps" ELSE "set_fps"]
            /\ cap_loc' = [cap_loc EXCEPT ![t] =
                            [IdleLocals EXCEPT
                                !.ct = current_time,
                                !.limit = recapture_limit,
                                !.fresh_at_call =
                                    /\ recapture_limit > 0
                                    /\ cache_gen > 0
                                    /\ current_time - cache_born < recapture_limit,
                                !.limited_at_call =
                                    /\ os_started >= 0
                                    /\ (current_time - os_started) * max_fps
                                            < TicksPerSecond,
                                !.stamp = TimestampOf(cap_pc, cache_gen),
                                !.first = last_done]]
    /\ calls' = calls + 1
    /\ cap_ret' = NoReturn
    /\ os_gap' = -1
    /\ UNCHANGED <<winVars, wmVars, now, screen, capture_cache, last_capture_time,
                   fps_timer, cache_lock, cache_gen, cache_born, last_done,
                   os_started>>

\* return self._capture_cache.copy() under the cache lock (lines 167-171, 179-184)
capture_from_cache(t) ==
    /\ cap_pc[t] \in {"cache_ttl", "cache_fps"}
    /\ cache_lock = NoThread
    /\ LET l == [cap_loc[t] EXCEPT !.seen = cache_gen]
           r == Return(l, IF cap_pc[t] = "cache_ttl" THEN "ttl" ELSE "fps", None,
                       CacheCopy(capture_cache), cache_gen, cache_born, last_done)
       IN  /\ cap_ret' = r
           /\ last_done' = Done(r)
    /\ cap_pc' = [cap_pc EXCEPT ![t] = "idle"]
    /\ cap_loc' = [cap_loc EXCEPT ![t] = IdleLocals]
    /\ os_gap' = -1
    /\ UNCHANGED <<winVars, wmVars, now, screen, capture_cache, last_capture_time,
                   fps_timer, cache_lock, cache_gen, cache_born, os_started, calls>>

\* self._fps_timer = current_time (line 186)
capture_set_fps_timer(t) ==
    /\ cap_pc[t] = "set_fps"
    /\ fps_timer' = cap_loc[t].ct
    /\ cap_pc' = [cap_pc EXCEPT ![t] = "attempt"]
    /\ cap_ret' = NoReturn
    /\ os_gap' = -1
    /\ UNCHANGED <<winVars, wmVars, now, screen, capture_cache, last_capture_time,
                   cache_lock, cap_loc, cache_gen, cache_born, last_done,
                   os_started, calls>>

\* The except clause of the retry loop (lines 214-220) for attempt number
\* `attempt`, entered with the handle manager holding `cached`: what the thread
\* does next, and the handle the manager holds then.
ExceptClause(attempt, ws, cached) ==
    IF attempt < max_retries - 1
    THEN LET r == _refresh_handle(ws, cached)
         IN  IF r.exc # None
             THEN [next |-> "raise", exc |-> r.exc, handle |-> r.handle, lookups |-> 1]
             ELSE [next |-> "sleep", exc |-> None, handle |-> r.handle, lookups |-> 1]
    ELSE [next |-> "raise", exc |-> "CaptureError", handle |-> cached, lookups |-> 0]

\* One pass of the retry loop (lines 190-220): _get_capture, the shape check, and
\* on a failure the handler with its handle refresh.  os_ok is whether the OS
\* calls of _get_capture succeed once a handle is there, one of os_outcomes.
capture_attempt(t, os_outcomes) ==
    /\ cap_pc[t] = "attempt"
    /\ \E os_ok \in os_outcomes, client \in ClientSizes :
        LET l == cap_loc[t]
            h == CaptureHandle(windows, hm_handle)
            shape == CaptureShape(force_1920x1080, client)
            raised == h.exc # None \/ ~os_ok
            good == ~raised /\ _check_shape(force_1920x1080, shape)
            \* a wrong shape on an attempt before the last: refresh, sleep, continue;
            \* an exception of that refresh is caught by the except clause
            shape_refresh == _refresh_handle(windows, h.handle)
            shape_retry == ~raised /\ ~good /\ l.attempt < max_retries - 1
                           /\ shape_refresh.exc = None
            e == ExceptClause(l.attempt, windows, h.handle)
            l2 == [l EXCEPT !.attempts = @ + 1,
                            !.os_calls = @ + (IF h.exc = None THEN 1 ELSE 0),
                            !.lookups = @ + h.lookups]
        IN  /\ IF h.exc = None
               THEN /\ os_started' = now
                    /\ os_gap' = IF os_started < 0 THEN -1 ELSE now - os_started
               ELSE /\ os_gap' = -1
                    /\ UNCHANGED <<os_started>>
            /\ IF good
               THEN /\ cap_pc' = [cap_pc EXCEPT ![t] = "store"]
                    /\ cap_loc' = [cap_loc EXCEPT ![t] = [l2 EXCEPT !.img = screen]]
                    /\ hm_handle' = h.handle
                    /\ cap_ret' = NoReturn
               ELSE IF shape_retry
               THEN /\ cap_pc' = [cap_pc EXCEPT ![t] = "sleep"]
                    /\ cap_loc' = [cap_loc EXCEPT ![t] =
                                     [l2 EXCEPT !.attempt = @ + 1,
                                                !.lookups = @ + 1,
                                                !.wake = now + SleepOnShape]]
                    /\ hm_handle' = shape_refresh.handle
                    /\ cap_ret' = NoReturn
               ELSE IF e.next = "sleep"
               THEN /\ cap_pc' = [cap_pc EXCEPT ![t] = "sleep"]
                    /\ cap_loc' = [cap_loc EXCEPT ![t] =
                                     [l2 EXCEPT !.attempt = @ + 1,
                                                !.lookups = @ + e.lookups,
                                                !.wake = now + SleepOnError]]
                    /\ hm_handle' = e.handle
                    /\ cap_ret' = NoReturn
               ELSE /\ cap_pc' = [cap_pc EXCEPT ![t] = "idle"]
                    /\ cap_loc' = [cap_loc EXCEPT ![t] = IdleLocals]
                    /\ hm_handle' = e.handle
                    /\ cap_ret' = Return([l2 EXCEPT !.lookups = @ + e.lookups],
                                          "exc", e.exc, ZeroFrame, 0, 0, last_done)
    /\ UNCHANGED <<winVars, wm_result, now, screen, capture_cache, last_capture_time,
                   fps_timer, cache_lock, cache_gen, cache_born, last_done, calls>>

\* time.sleep(...) between two attempts is over
capture_wake(t) ==
    /\ cap_pc[t] = "sleep"
    /\ now >= cap_loc[t].wake
    /\ cap_pc' = [cap_pc EXCEPT ![t] = "attempt"]
    /\ cap_ret' = NoReturn
    /\ os_gap' = -1
    /\ UNCHANGED <<winVars, wmVars, now, screen, capture_cache, last_capture_time,
                   fps_timer, cache_lock, cap_loc, cache_gen, cache_born,
                   last_done, os_started, calls>>

\* the lock is taken and self._capture_cache = img.copy() (lines 205-207)
capture_store_frame(t) ==
    /\ cap_pc[t] = "store"
    /\ cache_lock = NoThread
    /\ cache_lock' = t
    /\ capture_cache' = cap_loc[t].img
    /\ cap_loc' = [cap_loc EXCEPT ![t].seen = cache_gen]
    /\ cache_gen' = cache_gen + 1
    /\ cache_born' = cap_loc[t].ct
    /\ cap_pc' = [cap_pc EXCEPT ![t] = "store_time"]
    /\ cap_ret' = NoReturn
    /\ os_gap' = -1
    /\ UNCHANGED <<winVars, wmVars, now, screen, last_capture_time, fps_timer,
                   last_done, os_started, calls>>

\* self._last_capture_time = current_time, the lock is released, img is returned
\* (lines 208-212)
capture_store_time(t) ==
    /\ cap_pc[t] = "store_time"
    /\ last_capture_time' = cap_loc[t].ct
    /\ cache_lock' = NoThread
    /\ LET r == Return(cap_loc[t], "os", None, cap_loc[t].img, cache_gen, cap_loc[t].ct,
                       last_done)
       IN  /\ cap_ret' = r
           /\ last_done' = Done(r)
    /\ cap_pc' = [cap_pc EXCEPT ![t] = "idle"]
    /\ cap_loc' = [cap_loc EXCEPT ![t] = IdleLocals]
    /\ os_gap' = -1
    /\ UNCHANGED <<winVars, wmVars, now, screen, capture_cache, fps_timer, cache_gen,
                   cache_born, os_started, calls>>

\* the clock advances
Tick(horizon) ==
    /\ now < StartTime + horizon
    /\ now' = now + 1
    /\ cap_ret' = NoReturn
    /\ os_gap' = -1
    /\ UNCHANGED <<winVars, wmVars, screen, capture_cache, last_capture_time,
                   fps_timer, cache_lock, cap_pc, cap_loc, cache_gen,
                   cache_born, last_done, os_started, calls>>

\* the window shows something else
ScreenChange ==
    /\ \E px \in Pixels \ {screen} : screen' = px
    /\ cap_ret' = NoReturn
    /\ os_gap' = -1
    /\ UNCHANGED <<winVars, wmVars, now, capture_cache, last_capture_time,
                   fps_timer, cache_lock, cap_pc, cap_loc, cache_gen,
                   cache_born, last_done, os_started, calls>>

\* the game window is closed, or started again
EnvCapture ==
    /\ \/ CloseWindow
       \/ windows = <<>> /\ OpenWindow(GameTitleIds)
    /\ cap_ret' = NoReturn
    /\ os_gap' = -1
    /\ UNCHANGED <<wmVars, now, screen, capture_cache, last_capture_time,
                   fps_timer, cache_lock, cap_pc, cap_loc, cache_gen,
                   cache_born, last_done, os_started, calls>>

-----------------------------------------------------------------------------
(* interaction/core.py and interaction/decorators.py: the operations of      *)
(* InteractionCore, each behind the focus guard and the operation lock       *)

MaxOps == 2         \* operations called in one run

Keys == {"w"}
Buttons == {"left", "right"}

SimpleOps == {"left_click", "left_down", "left_up", "left_double_click",
              "right_click", "middle_click"}
KeyOps == {"key_down", "key_up", "key_press"}

OpCall(op, button, key, state, relative) ==
    [op |-> op, button |-> button, key |-> key, state |-> state, relative |-> relative]

\* the calls the threads make
OpCalls ==
    {OpCall(op, "", "", "", FALSE) : op \in SimpleOps}
    \cup {OpCall("move_to", "", "", "", relative) : relative \in BOOLEAN}
    \cup {OpCall(op, button, "", "", FALSE) :
            op \in {"move_and_click", "drag"}, button \in Buttons}
    \cup {OpCall(op, "", key, "", FALSE) : op \in KeyOps \cup {"unfreeze_key"}, key \in Keys}
    \cup {OpCall("freeze_key", "", key, state, FALSE) : key \in Keys, state \in {"down", "up"}}

NoCall == OpCall(None, "", "", "", FALSE)

\* dict.get(key, False) on _key_status and _key_freeze
DictGet(d, key) == d[key] = "True"

\* The lock can be taken without waiting for it
LockAlwaysAvailable(lock) == TRUE

\* threading.Lock.acquire() returns once no thread holds the lock
LockAvailable(lock) == lock = NoThread

\* The calls of the input controller an operation makes while it holds the
\* lock, in order (time.sleep between them takes no part here)
InputCalls(call, freeze) ==
    IF call.op \in SimpleOps \cup KeyOps \cup {"move_to"} THEN <<call.op>>
    ELSE IF call.op = "move_and_click"
    THEN <<"move_to", IF call.button = "left" THEN "left_click" ELSE "right_click">>
    ELSE IF call.op = "drag"
    THEN IF call.button = "left"
         THEN <<"move_to", "left_down", "move_to", "left_up">>
         ELSE <<"move_to", "right_click", "move_to">>
    ELSE IF call.op = "freeze_key"
    THEN <<IF call.state = "down" THEN "key_down" ELSE "key_up">>
    ELSE \* unfreeze_key
         <<IF DictGet(freeze, call.key) THEN "key_down" ELSE "key_up">>

\* whether a call of InteractionNormal asks the handle manager for the window
NeedsHandle(call, input_call) ==
    /\ input_call # "middle_click"
    /\ ~(input_call = "move_to" /\ call.relative)

NoInject == [thread |-> NoThread, call |-> None]
NoOpDone == [thread |-> NoThread, call |-> NoCall, log |-> <<>>, exc |-> None]
IdleOp == [call |-> NoCall, todo |-> <<>>, log |-> <<>>, exc |-> None, guard |-> <<>>]

InitOps ==
    /\ op_lock = NoThread
    /\ key_status = [k \in Keys |-> "absent"]
    /\ key_freeze = [k \in Keys |-> "absent"]
    /\ op_pc = [t \in Threads |-> "idle"]
    /\ op_loc = [t \in Threads |-> IdleOp]
    /\ injected = NoInject
    /\ op_done = NoOpDone
    /\ ops = 0

\* The foreground test of the wrapper: GetForegroundWindow, GetWindowText,
\* lower(), any(target_title in active_title); raises is whether one of the
\* win32gui calls raised, which the wrapper catches to run the operation
FocusCheck(raises) ==
    IF raises THEN "proceed"
    ELSE IF TitleMatches(GetWindowText(foreground)) THEN "proceed" ELSE "wait"

\* what a foreground test of the wrapper came to: a win32gui call raised, the
\* title of the foreground window matched, or another window was in front
FocusSeen(raises) ==
    IF raises THEN "raise"
    ELSE IF TitleMatches(GetWindowText(foreground)) THEN "match" ELSE "other"

\* A thread calls an operation, one of op_calls: the wrapper of before_operation
\* makes its first foreground test (decorators.py lines 52-60)
before_operation_of(t, op_calls) ==
    /\ op_pc[t] = "idle"
    /\ ops < MaxOps
    /\ ops' = ops + 1
    /\ \E call \in op_calls, raises \in BOOLEAN :
        /\ op_loc' = [op_loc EXCEPT ![t] = [IdleOp EXCEPT !.call = call,
                                                          !.guard = <<FocusSeen(raises)>>]]
        /\ op_pc' = [op_pc EXCEPT ![t] =
                        IF FocusCheck(raises) = "proceed" THEN "acquire" ELSE "poll"]
    /\ injected' = NoInject
    /\ op_done' = NoOpDone
    /\ UNCHANGED <<winVars, wmVars, op_lock, key_status, key_freeze>>

\* A thread calls any of the operations
before_operation(t) == before_operation_of(t, OpCalls)

\* The polling loop of the wrapper: sleep 0.1 s and test again (lines 62-70)
before_operation_poll(t) ==
    /\ op_pc[t] = "poll"
    /\ \E raises \in BOOLEAN :
        /\ op_pc' = [op_pc EXCEPT ![t] =
                        IF FocusCheck(raises) = "proceed" THEN "acquire" ELSE "poll"]
        /\ op_loc' = [op_loc EXCEPT ![t].guard =
                        IF FocusSeen(raises) = "other" THEN @
                        ELSE Append(@, FocusSeen(raises))]
    /\ injected' = NoInject
    /\ op_done' = NoOpDone
    /\ UNCHANGED <<winVars, wmVars, op_lock, key_status, key_freeze, ops>>

\* self._operation_lock.acquire(), and what the operation does before its
\* first input-controller call: freeze_key saves the key's status
operation_acquire(t) ==
    /\ op_pc[t] = "acquire"
    /\ LockAvailable(op_lock)
    /\ op_lock' = t
    /\ LET call == op_loc[t].call
       IN  /\ key_freeze' = IF call.op = "freeze_key"
                            THEN [key_freeze EXCEPT ![call.key] =
                                    IF DictGet(key_status, call.key) THEN "True" ELSE "False"]
                            ELSE key_freeze
           /\ op_loc' = [op_loc EXCEPT ![t].todo = InputCalls(call, key_freeze)]
    /\ op_pc' = [op_pc EXCEPT ![t] = "run"]
    /\ injected' = NoInject
    /\ op_done' = NoOpDone
    /\ UNCHANGED <<winVars, wmVars, key_status, ops>>

\* The next input-controller call of the operation.  A call that needs the
\* window handle raises WindowNotFoundError when there is no game window, and
\* the operation goes to its finally clause; after the last call key_down,
\* key_up and key_press record the key's status.
operation_input(t) ==
    /\ op_pc[t] = "run"
    /\ LET l == op_loc[t]
           call == l.call
           input_call == Head(l.todo)
           h == get_handle(windows, hm_handle)
           raised == NeedsHandle(call, input_call) /\ h.exc # None
           last == Len(l.todo) = 1
       IN  /\ hm_handle' = IF NeedsHandle(call, input_call) THEN h.handle ELSE hm_handle
           /\ IF raised
              THEN /\ op_loc' = [op_loc EXCEPT ![t].todo = <<>>, ![t].exc = h.exc]
                   /\ injected' = NoInject
                   /\ UNCHANGED key_status
              ELSE /\ op_loc' = [op_loc EXCEPT ![t].todo = Tail(l.todo),
                                               ![t].log = Append(l.log, input_call)]
                   /\ injected' = [thread |-> t, call |-> input_call]
                   /\ key_status' =
                        IF last /\ call.op \in KeyOps
                        THEN [key_status EXCEPT ![call.key] =
                                IF call.op = "key_down" THEN "True" ELSE "False"]
                        ELSE key_status
           /\ op_pc' = [op_pc EXCEPT ![t] = IF raised \/ last THEN "release" ELSE "run"]
    /\ op_done' = NoOpDone
    /\ UNCHANGED <<winVars, wm_result, op_lock, key_freeze, ops>>

\* A release that is skipped when the operation raised.
release_unless_raised(t) ==
    /\ op_pc[t] = "release"
    /\ op_lock' = IF op_loc[t].exc = None THEN NoThread ELSE op_lock
    /\ LET l == op_loc[t]
       IN  IF l.call.op = "right_click" /\ l.exc = None
           THEN /\ op_pc' = [op_pc EXCEPT ![t] = "delay"]
                /\ UNCHANGED op_loc
                /\ op_done' = NoOpDone
           ELSE /\ op_pc' = [op_pc EXCEPT ![t] = "idle"]
                /\ op_loc' = [op_loc EXCEPT ![t] = IdleOp]
                /\ op_done' = [thread |-> t, call |-> l.call, log |-> l.log, exc |-> l.exc]
    /\ injected' = NoInject
    /\ UNCHANGED <<winVars, wmVars, key_status, key_freeze, ops>>

\* finally: self._operation_lock.release(); right_click goes on to delay(0.05)
operation_release(t) ==
    /\ op_pc[t] = "release"
    /\ op_lock' = NoThread
    /\ LET l == op_loc[t]
       IN  IF l.call.op = "right_click" /\ l.exc = None
           THEN /\ op_pc' = [op_pc EXCEPT ![t] = "delay"]
                /\ UNCHANGED op_loc
                /\ op_done' = NoOpDone
           ELSE /\ op_pc' = [op_pc EXCEPT ![t] = "idle"]
                /\ op_loc' = [op_loc EXCEPT ![t] = IdleOp]
                /\ op_done' = [thread |-> t, call |-> l.call, log |-> l.log, exc |-> l.exc]
    /\ injected' = NoInject
    /\ UNCHANGED <<winVars, wmVars, key_status, key_freeze, ops>>

\* self.delay(0.05) of right_click is over and the operation returns
operation_delay(t) ==
    /\ op_pc[t] = "delay"
    /\ op_pc' = [op_pc EXCEPT ![t] = "idle"]
    /\ op_loc' = [op_loc EXCEPT ![t] = IdleOp]
    /\ op_done' = [thread |-> t, call |-> op_loc[t].call, log |-> op_loc[t].log,
                   exc |-> None]
    /\ injected' = NoInject
    /\ UNCHANGED <<winVars, wmVars, op_lock, key_status, key_freeze, ops>>

\* another window, or none, becomes the foreground window
FocusChange ==
    /\ \E h \in {windows[i].hwnd : i \in DOMAIN windows} \cup {NoHandle} :
        /\ h # foreground
        /\ foreground' = h
    /\ injected' = NoInject
    /\ op_done' = NoOpDone
    /\ UNCHANGED <<windows, nextHwnd, wmVars, op_lock, key_status, key_freeze,
                   op_pc, op_loc, ops>>

-----------------------------------------------------------------------------
(* Frames and their shapes: interaction/capture.py, interaction/core.py,     *)
(* interaction/image_matcher.py                                              *)

NoArgs == [fn |-> None]
NoRet == [fn |-> None, exc |-> None]

\* the image files: "a" and "b" and "d" decode, "c" is missing
Paths == {"a", "b", "c", "d"}
Unreadable == 0
InitFiles == [p \in Paths |-> IF p = "c" THEN Unreadable ELSE 1]

\* the vision functions are not in use
IdleVision ==
    /\ call_args = NoArgs
    /\ call_ret = NoRet
    /\ image_cache = <<>>
    /\ files = InitFiles
    /\ last_used = [p \in Paths |-> 0]
    /\ loads = 0

\* core/types.py: Rect and its properties right and bottom
Rect(x, y, width, height) == [x |-> x, y |-> y, width |-> width, height |-> height]
Rect_right(r) == r.x + r.width
Rect_bottom(r) == r.y + r.height

Min(a, b) == IF a <= b THEN a ELSE b
Max(a, b) == IF a >= b THEN a ELSE b

\* The number of elements of a[start:stop] for a of length n: Python moves a
\* negative index up by n and clips both ends to 0..n
SliceIndex(i, n) == IF i < 0 THEN Max(i + n, 0) ELSE Min(i, n)
SliceLen(n, start, stop) == Max(SliceIndex(stop, n) - SliceIndex(start, n), 0)

\* crop_image: the shape of image[y:bottom, x:right]
crop_image(shape, region) ==
    << SliceLen(shape[1], region.y, Rect_bottom(region)),
       SliceLen(shape[2], region.x, Rect_right(region)),
       shape[3] >>

\* interaction/constants.py
NORMAL_CHANNELS == 0
BACKGROUND_CHANNELS == 1
UI_CHANNELS == 2
FOUR_CHANNELS == 3

\* the channel handling of InteractionCore.capture (core.py lines 96-112)
ChannelShape(shape, channel_mode) ==
    IF shape[3] = 3 THEN shape
    ELSE IF channel_mode \in {NORMAL_CHANNELS, BACKGROUND_CHANNELS, UI_CHANNELS}
    THEN <<shape[1], shape[2], 3>>
    ELSE shape

NoRegion == Rect(0, 0, -1, -1)      \* region = None

\* The regions callers pass: inside the frame, across its right and bottom
\* edges, beyond them, empty, and with a negative origin
Regions ==
    { Rect(x, y, w, h) : x \in {0, 1900, 1920, -5}, y \in {0, 1080}, w \in {0, 100}, h \in {50} }

ChannelModes == {NORMAL_CHANNELS, BACKGROUND_CHANNELS, UI_CHANNELS, FOUR_CHANNELS}

\* the calls whose frames are looked at
InitFrame ==
    /\ call_args \in
         { [fn |-> "WindowsCapture.capture", force |-> f, client |-> c] :
              f \in BOOLEAN, c \in ClientSizes }
         \cup
         { [fn |-> "InteractionCore.capture", client |-> c, region |-> r, channel_mode |-> m] :
              c \in ClientSizes, r \in Regions \cup {NoRegion}, m \in ChannelModes }
    /\ call_ret = NoRet
    /\ image_cache = <<>>
    /\ files = InitFiles
    /\ last_used = [p \in Paths |-> 0]
    /\ loads = 0

\* WindowsCapture.capture when the OS calls succeed: the frame of _get_capture,
\* or CaptureError when _check_shape rejects it on every attempt
WindowsCapture_capture ==
    /\ call_args.fn = "WindowsCapture.capture"
    /\ call_ret = NoRet
    /\ LET shape == CaptureShape(call_args.force, call_args.client)
       IN  call_ret' = IF _check_shape(call_args.force, shape)
                       THEN [fn |-> call_args.fn, exc |-> None, shape |-> shape]
                       ELSE [fn |-> call_args.fn, exc |-> "CaptureError", shape |-> <<>>]
    /\ UNCHANGED <<call_args, image_cache, files, last_used, loads>>

\* InteractionCore.capture: the frame of its WindowsCapture(max_fps=30), which
\* forces 1920x1080, cropped to the region and reduced to the channel mode
InteractionCore_capture ==
    /\ call_args.fn = "InteractionCore.capture"
    /\ call_ret = NoRet
    /\ LET ret == CaptureShape(force_1920x1080, call_args.client)
           cropped == IF call_args.region # NoRegion
                      THEN crop_image(ret, call_args.region) ELSE ret
       IN  call_ret' = [fn |-> call_args.fn, exc |-> None,
                        shape |-> ChannelShape(cropped, call_args.channel_mode)]
    /\ UNCHANGED <<call_args, image_cache, files, last_used, loads>>

-----------------------------------------------------------------------------
(* vision/templates.py: TemplateStore.load_image behind functools.lru_cache  *)

\* lru_cache(maxsize=128) keeps 128 entries; the cache of the model keeps
\* maxsize entries, few enough for every order of hits and misses to be run
maxsize  == 2
MaxLoads == 5       \* load_image calls made in one run

CachedPaths(cache) == {cache[i].path : i \in DOMAIN cache}
CacheIndex(cache, path) == CHOOSE i \in DOMAIN cache : cache[i].path = path

\* a hit that leaves the entry where it is
LruKeepPlace(cache, i) == cache

\* a hit of lru_cache: the entry becomes the most recently used one
LruTouch(cache, i) ==
    [j \in 1..Len(cache) |->
        IF j < i THEN cache[j] ELSE IF j < Len(cache) THEN cache[j + 1] ELSE cache[i]]

\* a miss of lru_cache whose call returned buffer: the oldest entry goes when
\* the cache is full, and the new entry is the most recently used one
LruInsert(cache, entry) ==
    IF Len(cache) >= maxsize THEN Append(Tail(cache), entry) ELSE Append(cache, entry)

\* cv2.imread(path, cv2.IMREAD_COLOR): None for a file that cannot be read
imread(path) == files[path]

\* load_image(path) through the cache: the cache afterwards, what is returned
\* or raised, whether the file was decoded, and the entry that was evicted
load_image(cache, path, clock) ==
    IF path \in CachedPaths(cache)
    THEN LET i == CacheIndex(cache, path)
         IN  [cache |-> LruTouch(cache, i), exc |-> None, buffer |-> cache[i].buffer,
              decoded |-> FALSE, evicted |-> <<>>]
    ELSE LET img == imread(path)
         IN  IF img = Unreadable
             THEN [cache |-> cache, exc |-> "FileNotFoundError", buffer |-> Unreadable,
                   decoded |-> TRUE, evicted |-> <<>>]
             ELSE [cache |-> LruInsert(cache, [path |-> path, buffer |-> img,
                                              inserted |-> clock]),
                   exc |-> None, buffer |-> img, decoded |-> TRUE,
                   evicted |-> IF Len(cache) >= maxsize THEN <<Head(cache)>> ELSE <<>>]

LoadImage ==
    /\ loads < MaxLoads
    /\ \E path \in Paths :
        LET r == load_image(image_cache, path, loads + 1)
        IN  /\ image_cache' = r.cache
            /\ call_args' = [fn |-> "load_image", path |-> path]
            /\ call_ret' = [fn |-> "load_image", exc |-> r.exc, buffer |-> r.buffer,
                            decoded |-> r.decoded, evicted |-> r.evicted,
                            before |-> image_cache, used_before |-> last_used]
            /\ last_used' = IF r.exc = None THEN [last_used EXCEPT ![path] = loads + 1]
                            ELSE last_used
    /\ loads' = loads + 1
    /\ UNCHANGED files

\* the file at "a" is replaced by another picture
FileChange ==
    /\ files' = [files EXCEPT !["a"] = 3 - @]
    /\ call_args' = NoArgs
    /\ call_ret' = NoRet
    /\ UNCHANGED <<image_cache, last_used, loads>>

-----------------------------------------------------------------------------
(* Template matching on small pictures: vision/matching.py,                  *)
(* interaction/image_matcher.py and the image functions of InteractionCore   *)
(* and UiDetectors.  A picture is a sequence of rows of intensities (one     *)
(* channel; cv2.matchTemplate adds the sums of the channels of a colour      *)
(* picture).                                                                  *)

Intensities == {0, 1, 2}
Image(shape, intensities) == [1..shape[1] -> [1..shape[2] -> intensities]]
\* one row of three pixels of any intensity, and two rows of two pixels that
\* are dark or not
Frames == Image(<<1, 3>>, Intensities) \cup Image(<<2, 2>>, {0, 1})
SmallFrames == Image(<<1, 2>>, Intensities)

Height(img) == Len(img)
Width(img)  == IF Len(img) = 0 THEN 0 ELSE Len(img[1])

\* numpy: img[y:b, x:r]
Slice(img, y, b, x, r) ==
    LET y0 == SliceIndex(y, Height(img))
        x0 == SliceIndex(x, Width(img))
    IN  [i \in 1..SliceLen(Height(img), y, b) |->
            [j \in 1..SliceLen(Width(img), x, r) |-> img[y0 + i][x0 + j]]]

\* image_matcher.crop_image on the pixels
crop_pixels(image, region) ==
    Slice(image, region.y, Rect_bottom(region), region.x, Rect_right(region))

Cells(img) == (1..Height(img)) \X (1..Width(img))

RECURSIVE Sum(_, _)
Sum(f, S) ==
    IF S = {} THEN 0
    ELSE LET c == CHOOSE c \in S : TRUE IN f[c] + Sum(f, S \ {c})

Dot(a, b) == Sum([c \in Cells(a) |-> a[c[1]][c[2]] * b[c[1]][c[2]]], Cells(a))
Total(a)  == Sum([c \in Cells(a) |-> a[c[1]][c[2]]], Cells(a))

\* A score is the real number num / sqrt(den2), kept exact
Score(num, den2) == [num |-> num, den2 |-> den2]
ScoreOne  == Score(1, 1)
ScoreZero == Score(0, 1)
\* a threshold given in hundredths
Threshold(t) == Score(t, 10000)

SignedSquare(s) == IF s.num >= 0 THEN s.num * s.num ELSE 0 - s.num * s.num
\* a <= b and a < b for scores
ScoreLE(a, b)   == SignedSquare(a) * b.den2 <= SignedSquare(b) * a.den2
ScoreLess(a, b) == ~ScoreLE(b, a)

\* n times the sum of squared deviations from the mean
Deviation(a) == Height(a) * Width(a) * Dot(a, a) - Total(a) * Total(a)

\* cv2.TM_CCORR_NORMED of one patch: 0 when the patch or the template is black
TM_CCORR_NORMED(patch, templ) ==
    IF Dot(patch, patch) * Dot(templ, templ) = 0 THEN ScoreZero
    ELSE Score(Dot(patch, templ), Dot(patch, patch) * Dot(templ, templ))

\* cv2.TM_CCOEFF_NORMED of one patch: 1 everywhere for a template of one
\* colour, 0 on a patch of one colour
TM_CCOEFF_NORMED(patch, templ) ==
    IF Deviation(templ) = 0 THEN ScoreOne
    ELSE IF Deviation(patch) = 0 THEN ScoreZero
    ELSE Score(Height(templ) * Width(templ) * Dot(patch, templ) - Total(patch) * Total(templ),
               Deviation(patch) * Deviation(templ))

\* cv2.matchTemplate: the score at every offset <<x, y>> of the template
matchTemplate(image, templ, method) ==
    [p \in (0..(Width(image) - Width(templ))) \X (0..(Height(image) - Height(templ))) |->
        LET patch == Slice(image, p[2], p[2] + Height(templ), p[1], p[1] + Width(templ))
        IN  IF method = "TM_CCORR_NORMED" THEN TM_CCORR_NORMED(patch, templ)
            ELSE TM_CCOEFF_NORMED(patch, templ)]

\* offset p comes before offset q when the result is scanned row by row
ScannedBefore(p, q) == p[2] < q[2] \/ (p[2] = q[2] /\ p[1] < q[1])

\* cv2.minMaxLoc: the largest value and the first offset that has it
minMaxLoc(res) ==
    LET best == CHOOSE p \in DOMAIN res :
                    \A q \in DOMAIN res :
                        /\ ScoreLE(res[q], res[p])
                        /\ ScoreLE(res[p], res[q]) => (p = q \/ ScannedBefore(p, q))
    IN  [max_val |-> res[best], max_loc |-> best]

MatchResult(score, rect, center) == [score |-> score, rect |-> rect, center |-> center]

\* the size test with the frame refused when it is as small as the template
ScreenNotLarger(screen_img, tmpl_img) ==
    Height(screen_img) <= Height(tmpl_img) \/ Width(screen_img) <= Width(tmpl_img)

\* the size test of TemplateMatcher.match and match_image
ScreenTooSmall(screen_img, tmpl_img) ==
    Height(screen_img) < Height(tmpl_img) \/ Width(screen_img) < Width(tmpl_img)

\* A match that reports the position inside the cropped frame.
match_without_roi_offset(screen_in, template, tmpl_img) ==
    LET screen_img == IF template.roi # NoRegion
                      THEN Slice(screen_in, template.roi.y, Rect_bottom(template.roi),
                                 template.roi.x, Rect_right(template.roi))
                      ELSE screen_in
    IN  IF ScreenTooSmall(screen_img, tmpl_img) THEN [result |-> <<>>, score |-> <<>>]
        ELSE LET mm == minMaxLoc(matchTemplate(screen_img, tmpl_img, "TM_CCOEFF_NORMED"))
                 w == Width(tmpl_img)
                 h == Height(tmpl_img)
             IN  IF ScoreLess(mm.max_val, Threshold(template.threshold))
                 THEN [result |-> <<>>, score |-> <<mm.max_val>>]
                 ELSE [result |-> <<MatchResult(mm.max_val,
                                                Rect(mm.max_loc[1], mm.max_loc[2], w, h),
                                                <<mm.max_loc[1] + (w \div 2),
                                                  mm.max_loc[2] + (h \div 2)>>)>>,
                       score |-> <<mm.max_val>>]

\* TemplateMatcher.match(screen, template), tmpl_img being what
\* store.load_image(template.path) returns: <<>> for None, else <<MatchResult>>;
\* score is max_val when the matching was run
TemplateMatcher_match(screen_in, template, tmpl_img) ==
    LET screen_img == IF template.roi # NoRegion
                      THEN Slice(screen_in, template.roi.y, Rect_bottom(template.roi),
                                 template.roi.x, Rect_right(template.roi))
                      ELSE screen_in
    IN  IF ScreenTooSmall(screen_img, tmpl_img) THEN [result |-> <<>>, score |-> <<>>]
        ELSE LET mm == minMaxLoc(matchTemplate(screen_img, tmpl_img, "TM_CCOEFF_NORMED"))
                 offset_x == IF template.roi # NoRegion THEN template.roi.x ELSE 0
                 offset_y == IF template.roi # NoRegion THEN template.roi.y ELSE 0
                 left == mm.max_loc[1] + offset_x
                 top == mm.max_loc[2] + offset_y
                 w == Width(tmpl_img)
                 h == Height(tmpl_img)
             IN  IF ScoreLess(mm.max_val, Threshold(template.threshold))
                 THEN [result |-> <<>>, score |-> <<mm.max_val>>]
                 ELSE [result |-> <<MatchResult(mm.max_val, Rect(left, top, w, h),
                                                <<left + (w \div 2), top + (h \div 2)>>)>>,
                       score |-> <<mm.max_val>>]

\* names of mouse buttons, as strings of characters
left   == <<"l", "e", "f", "t">>
right  == <<"r", "i", "g", "h", "t">>
middle == <<"m", "i", "d", "d", "l", "e">>
LEFT   == <<"L", "E", "F", "T">>
side   == <<"s", "i", "d", "e">>

\* ForegroundInput._normalize_button accepts these names
ForegroundButtons == {left, right, middle}

\* click_if_exists clicking whatever the override
click_whatever_the_override(screen_in, template, tmpl_img, button, threshold_override) ==
    LET m == TemplateMatcher_match(screen_in, template, tmpl_img)
    IN  IF m.result = <<>>
        THEN [exc |-> None, ret |-> FALSE, input |-> <<>>, score |-> m.score, matched |-> FALSE]
        ELSE [exc |-> None, ret |-> TRUE,
              input |-> <<[op |-> "move_to", pos |-> m.result[1].center],
                          [op |-> "click", button |-> Lower(button)]>>,
              score |-> m.score, matched |-> TRUE]
\* UiDetectors.click_if_exists: the value returned or the exception raised, the
\* input sent, and whether the score was taken as a match
UiDetectors_click_if_exists(screen_in, template, tmpl_img, button, threshold_override) ==
    LET m == TemplateMatcher_match(screen_in, template, tmpl_img)
    IN  IF m.result = <<>>
        THEN [exc |-> None, ret |-> FALSE, input |-> <<>>, score |-> m.score, matched |-> FALSE]
        ELSE IF threshold_override # <<>>
                /\ ScoreLess(m.result[1].score, Threshold(threshold_override[1]))
        THEN [exc |-> None, ret |-> FALSE, input |-> <<>>, score |-> m.score, matched |-> FALSE]
        ELSE LET move == [op |-> "move_to", pos |-> m.result[1].center]
             IN  IF Lower(button) \in ForegroundButtons
                 THEN [exc |-> None, ret |-> TRUE,
                       input |-> <<move, [op |-> "click", button |-> Lower(button)]>>,
                       score |-> m.score, matched |-> TRUE]
                 ELSE [exc |-> "ValueError", ret |-> FALSE, input |-> <<move>>,
                       score |-> m.score, matched |-> TRUE]

\* interaction/constants.py
IMG_RATE == 0
IMG_POSI == 1
IMG_BOOL == 4
IMG_BOOLRATE == 5

\* image_matcher.match_image(image, template, return_mode = IMG_POSI); the
\* rate alone is what return_mode = IMG_RATE gives
match_image(image, template) ==
    IF ScreenTooSmall(image, template)
    THEN [rate |-> ScoreZero, position |-> <<0, 0>>, ran |-> FALSE]
    ELSE LET mm == minMaxLoc(matchTemplate(image, template, "TM_CCORR_NORMED"))
         IN  [rate |-> mm.max_val, position |-> mm.max_loc, ran |-> TRUE]

\* InteractionCore.capture(region, NORMAL_CHANNELS) of a frame on the screen
capture_region(frame, region) ==
    IF region # NoRegion THEN crop_pixels(frame, region) ELSE frame

\* InteractionCore.check_image_exists: a boolean, a rate, or both absent
InteractionCore_check_image_exists(frame, template, region, threshold, return_mode) ==
    LET matching_rate == match_image(capture_region(frame, region), template).rate
    IN  IF return_mode = IMG_BOOL
        THEN [bool |-> <<ScoreLE(Threshold(threshold), matching_rate)>>, rate |-> <<>>]
        ELSE IF return_mode = IMG_BOOLRATE
        THEN IF ScoreLE(Threshold(threshold), matching_rate)
             THEN [bool |-> <<>>, rate |-> <<matching_rate>>]
             ELSE [bool |-> <<FALSE>>, rate |-> <<>>]
        ELSE [bool |-> <<>>, rate |-> <<matching_rate>>]

\* InteractionCore.find_image_position: <<>> for None, else <<position>>
InteractionCore_find_image_position(frame, template, region, threshold) ==
    LET m == match_image(capture_region(frame, region), template)
    IN  IF ScoreLE(Threshold(threshold), m.rate)
        THEN IF region # NoRegion
             THEN << <<m.position[1] + region.x, m.position[2] + region.y>> >>
             ELSE << m.position >>
        ELSE <<>>

\* InteractionCore.move_and_click once it holds the lock: every button name
\* other than 'left' is a right click
move_and_click(position, button) ==
    << [op |-> "move_to", pos |-> position],
       IF button = left THEN [op |-> "left_click"] ELSE [op |-> "right_click"] >>

\* InteractionCore.click_if_image_exists
InteractionCore_click_if_image_exists(frame, template, region, threshold, button) ==
    LET position == InteractionCore_find_image_position(frame, template, region, threshold)
    IN  IF position = <<>> THEN [ret |-> FALSE, input |-> <<>>]
        ELSE [ret |-> TRUE,
              input |-> move_and_click(<<position[1][1] + (Width(template) \div 2),
                                         position[1][2] + (Height(template) \div 2)>>,
                                       button)]

\* the similarity test in the loop of InteractionCore.wait_until_stable
StableFrame(last_cap, curr_img, threshold) ==
    ScoreLess(Threshold(threshold), match_image(last_cap, curr_img).rate)

\* ---- the inputs ----

\* every rectangle inside a picture
SubRects(img) ==
    { r \in { Rect(x, y, w, h) : x \in 0..(Width(img) - 1), y \in 0..(Height(img) - 1),
                                 w \in 1..Width(img), h \in 1..Height(img) } :
        Rect_right(r) <= Width(img) /\ Rect_bottom(r) <= Height(img) }

\* the negative of a picture
Inverted(img) == [i \in DOMAIN img |-> [j \in DOMAIN img[i] |-> 2 - img[i][j]]]

\* templates taller or wider than every frame
Oversized == { << <<1>>, <<2>>, <<1>> >>, << <<1, 2, 1, 2>> >> }

\* the templates tried on a frame: its crops (origin is where the crop was
\* taken), their negatives and the oversized ones
TemplatesFor(frame) ==
    { [img |-> crop_pixels(frame, r), origin |-> <<r.x, r.y>>] : r \in SubRects(frame) }
        \cup { [img |-> Inverted(crop_pixels(frame, r)), origin |-> <<>>] : r \in SubRects(frame) }
        \cup { [img |-> t, origin |-> <<>>] : t \in Oversized }

MatchThresholds == {-100, 0, 50, 100}       \* hundredths
MatchRegions == { NoRegion, Rect(1, 0, 2, 2), Rect(5, 0, 1, 1), Rect(0, 1, 2, 1) }
MatchButtons == {left, side}
NoOverride == <<>>
Overrides == {NoOverride} \cup { <<t>> : t \in MatchThresholds }
ReturnModes == {IMG_BOOL, IMG_BOOLRATE, IMG_RATE}

MatchArgs(fn, frames, regions, buttons, overrides, modes) ==
    \E f \in frames : \E t \in TemplatesFor(f) : \E th \in MatchThresholds :
    \E r \in regions : \E b \in buttons : \E o \in overrides : \E m \in modes :
        call_args = [fn |-> fn, frame |-> f, templ |-> t.img, origin |-> t.origin,
                     threshold |-> th, region |-> r, button |-> b, override |-> o,
                     return_mode |-> m]

InitMatch ==
    /\ \/ MatchArgs("TemplateMatcher.match", Frames, MatchRegions, {left},
                    {NoOverride}, {IMG_RATE})
       \/ MatchArgs("UiDetectors.click_if_exists", SmallFrames, {NoRegion},
                    MatchButtons, Overrides, {IMG_RATE})
       \/ MatchArgs("InteractionCore.check_image_exists", SmallFrames, MatchRegions,
                    {left}, {NoOverride}, ReturnModes)
       \/ MatchArgs("InteractionCore.find_image_position", Frames, MatchRegions,
                    {left}, {NoOverride}, {IMG_POSI})
       \/ MatchArgs("InteractionCore.click_if_image_exists", SmallFrames, MatchRegions,
                    MatchButtons, {NoOverride}, {IMG_POSI})
       \/ MatchArgs("InteractionCore.wait_until_stable", SmallFrames, {NoRegion},
                    {left}, {NoOverride}, {IMG_RATE})
    /\ call_ret = NoRet
    /\ image_cache = <<>>
    /\ files = InitFiles
    /\ last_used = [p \in Paths |-> 0]
    /\ loads = 0

\* the Template descriptor of a call
ArgTemplate == Template("t", "t.png", call_args.threshold, call_args.region)

\* one comparison of a score with a threshold, and what the code took it for
Compared(score, threshold, matched) ==
    [score |-> score, threshold |-> threshold, matched |-> matched]

Match ==
    /\ call_args.fn = "TemplateMatcher.match"
    /\ call_ret = NoRet
    /\ LET m == TemplateMatcher_match(call_args.frame, ArgTemplate, call_args.templ)
       IN  call_ret' = [fn |-> call_args.fn, exc |-> None, result |-> m.result,
                        input |-> <<>>,
                        scores |-> IF m.result = <<>> THEN <<>> ELSE <<m.result[1].score>>,
                        compared |-> IF m.score = <<>> THEN <<>>
                                     ELSE <<Compared(m.score[1], call_args.threshold,
                                                     m.result # <<>>)>>]
    /\ UNCHANGED <<call_args, image_cache, files, last_used, loads>>

ClickIfExists ==
    /\ call_args.fn = "UiDetectors.click_if_exists"
    /\ call_ret = NoRet
    /\ LET m == TemplateMatcher_match(call_args.frame, ArgTemplate, call_args.templ)
           c == UiDetectors_click_if_exists(call_args.frame, ArgTemplate, call_args.templ,
                                            call_args.button, call_args.override)
       IN  call_ret' = [fn |-> call_args.fn, exc |-> c.exc, result |-> <<c.ret>>,
                        input |-> c.input, grabs |-> 1, matches |-> 1,
                        scores |-> IF m.result = <<>> THEN <<>> ELSE <<m.result[1].score>>,
                        compared |-> IF m.result = <<>> \/ call_args.override = NoOverride
                                     THEN <<>>
                                     ELSE <<Compared(m.score[1], call_args.override[1],
                                                     c.matched)>>]
    /\ UNCHANGED <<call_args, image_cache, files, last_used, loads>>

CheckImageExists ==
    /\ call_args.fn = "InteractionCore.check_image_exists"
    /\ call_ret = NoRet
    /\ LET r == InteractionCore_check_image_exists(call_args.frame, call_args.templ,
                    call_args.region, call_args.threshold, call_args.return_mode)
           rate == match_image(capture_region(call_args.frame, call_args.region),
                               call_args.templ).rate
       IN  call_ret' = [fn |-> call_args.fn, exc |-> None, result |-> <<r>>,
                        input |-> <<>>, scores |-> r.rate,
                        compared |-> IF call_args.return_mode = IMG_BOOL
                                     THEN <<Compared(rate, call_args.threshold, r.bool[1])>>
                                     ELSE IF call_args.return_mode = IMG_BOOLRATE
                                     THEN <<Compared(rate, call_args.threshold, r.rate # <<>>)>>
                                     ELSE <<>>]
    /\ UNCHANGED <<call_args, image_cache, files, last_used, loads>>

FindImagePosition ==
    /\ call_args.fn = "InteractionCore.find_image_position"
    /\ call_ret = NoRet
    /\ LET position == InteractionCore_find_image_position(call_args.frame, call_args.templ,
                           call_args.region, call_args.threshold)
           rate == match_image(capture_region(call_args.frame, call_args.region),
                               call_args.templ).rate
       IN  call_ret' = [fn |-> call_args.fn, exc |-> None, result |-> position,
                        input |-> <<>>, scores |-> <<>>,
                        compared |-> <<Compared(rate, call_args.threshold, position # <<>>)>>]
    /\ UNCHANGED <<call_args, image_cache, files, last_used, loads>>

ClickIfImageExists ==
    /\ call_args.fn = "InteractionCore.click_if_image_exists"
    /\ call_ret = NoRet
    /\ LET c == InteractionCore_click_if_image_exists(call_args.frame, call_args.templ,
                    call_args.region, call_args.threshold, call_args.button)
       IN  call_ret' = [fn |-> call_args.fn, exc |-> None, result |-> <<c.ret>>,
                        input |-> c.input, scores |-> <<>>, compared |-> <<>>]
    /\ UNCHANGED <<call_args, image_cache, files, last_used, loads>>

\* one turn of the loop of wait_until_stable: last_cap is the frame, curr_img
\* the picture taken after it
WaitUntilStableCompare ==
    /\ call_args.fn = "InteractionCore.wait_until_stable"
    /\ call_ret = NoRet
    /\ LET similarity == match_image(call_args.frame, call_args.templ).rate
           stable == StableFrame(call_args.frame, call_args.templ, call_args.threshold)
       IN  call_ret' = [fn |-> call_args.fn, exc |-> None, result |-> <<stable>>,
                        input |-> <<>>, scores |-> <<>>,
                        compared |-> <<Compared(similarity, call_args.threshold, stable)>>]
    /\ UNCHANGED <<call_args, image_cache, files, last_used, loads>>

-----------------------------------------------------------------------------
(* Names of keys and of mouse buttons: interaction/input_controller.py,      *)
(* the key and pointer operations of InteractionCore, input/foreground.py    *)

\* some entries of VK_CODE, spelled as the table spells them
VK_CODE ==
    (<<"e", "n", "t", "e", "r">> :> 13) @@ (<<"e", "s", "c">> :> 27)
        @@ (<<"6">> :> 54) @@ (<<"a">> :> 65) @@ (<<"w">> :> 87)
        @@ (<<"F", "1">> :> 112) @@ (<<"F", "2">> :> 113) @@ (<<"F", "1", "2">> :> 123)

\* user32.VkKeyScanA on one character: the key of the layout that types it,
\* -1 when no key does ("NoKeyChar" stands for such a character)
VkKeyScanA(ch) == IF ch = ";" THEN 186 ELSE -1

\* the upper-case and lower-case forms of a character
CaseForms(c) ==
    {c, LowerChar(c)} \cup {UpperChars[i] : i \in {j \in DOMAIN LowerChars : LowerChars[j] = c}}

\* every upper/lower-case spelling of a name
Spellings(s) ==
    { t \in [1..Len(s) -> UNION {CaseForms(s[i]) : i \in 1..Len(s)}] :
        \A i \in 1..Len(s) : t[i] \in CaseForms(s[i]) }

\* the key names the calls are made with
KeyNames ==
    UNION {Spellings(name) : name \in DOMAIN VK_CODE}
        \cup { <<";">>, <<"NoKeyChar">>, <<"f", "o", "o">> }

\* InteractionNormal._get_virtual_keycode
_get_virtual_keycode(key) ==
    LET key_lower == Lower(key)
    IN  IF key_lower \in DOMAIN VK_CODE
        THEN [exc |-> None, code |-> VK_CODE[key_lower]]
        ELSE IF Len(key) = 1 /\ VkKeyScanA(Lower(key)[1]) # -1
        THEN [exc |-> None, code |-> VkKeyScanA(Lower(key)[1]) % 256]
        ELSE [exc |-> "ValueError", code |-> 0]

PostMessageW(msg, wparam) == [op |-> msg, wparam |-> wparam]

\* InteractionNormal.key_down, key_up and key_press: a ValueError of the key
\* lookup is caught and logged
InteractionNormal_key(op, key, ws, cached) ==
    LET vk == _get_virtual_keycode(key)
        h == get_handle(ws, cached)
    IN  IF vk.exc # None
        THEN [exc |-> None, input |-> <<>>, log |-> <<"error">>, handle |-> cached]
        ELSE IF h.exc # None
        THEN [exc |-> h.exc, input |-> <<>>, log |-> <<>>, handle |-> h.handle]
        ELSE [exc |-> None,
              input |-> IF op = "key_down" THEN <<PostMessageW("WM_KEYDOWN", vk.code)>>
                        ELSE IF op = "key_up" THEN <<PostMessageW("WM_KEYUP", vk.code)>>
                        ELSE <<PostMessageW("WM_KEYDOWN", vk.code),
                               PostMessageW("WM_KEYUP", vk.code)>>,
              log |-> <<>>, handle |-> h.handle]

\* InteractionCore.key_down, key_up and key_press under the lock: the tracked
\* state is written when the call of the injector returns
InteractionCore_key(op, key, status, ws, cached) ==
    LET r == InteractionNormal_key(op, key, ws, cached)
    IN  [exc |-> r.exc, input |-> r.input, handle |-> r.handle,
         key_status |-> IF r.exc # None THEN status
                        ELSE [status EXCEPT ![key] = IF op = "key_down" THEN "True"
                                                     ELSE "False"]]

\* ForegroundInput.click, mouse_down and drag_to: the button is normalized
\* before anything is sent
ForegroundInput_button(op, button) ==
    IF Lower(button) \in ForegroundButtons
    THEN [exc |-> None, input |-> <<[op |-> op, button |-> Lower(button)]>>]
    ELSE [exc |-> "ValueError", input |-> <<>>]

\* InteractionCore.drag once it holds the lock
drag(origin_pos, target_pos, button) ==
    IF button = left
    THEN << [op |-> "move_to", pos |-> origin_pos], [op |-> "left_down"],
            [op |-> "move_to", pos |-> target_pos], [op |-> "left_up"] >>
    ELSE << [op |-> "move_to", pos |-> origin_pos], [op |-> "right_click"],
            [op |-> "move_to", pos |-> target_pos] >>

KeyFns == {"key_down", "key_up", "key_press"}
ForegroundButtonFns == {"click", "mouse_down", "drag_to"}
CoreButtonFns == {"move_and_click", "drag"}

InputArgs(fn, op, key, button) == [fn |-> fn, op |-> op, key |-> key, button |-> button]

\* one call with a key name or a button name; the window is there and in
\* front, the lock is free, the key is tracked as pressed, released or not at all
InitInput ==
    /\ \/ \E key \in KeyNames :
            call_args = InputArgs("InteractionNormal._get_virtual_keycode", None, key, left)
       \/ \E op \in KeyFns, key \in KeyNames :
            call_args = InputArgs("InteractionNormal.key", op, key, left)
       \/ \E op \in KeyFns, key \in KeyNames :
            call_args = InputArgs("InteractionCore.key", op, key, left)
       \/ \E op \in ForegroundButtonFns, button \in MatchButtons \cup {LEFT, middle} :
            call_args = InputArgs("ForegroundInput.button", op, <<>>, button)
       \/ \E op \in CoreButtonFns, button \in MatchButtons \cup {right, middle} :
            call_args = InputArgs("InteractionCore.button", op, <<>>, button)
       \/ MatchArgs("UiDetectors.click_if_exists", SmallFrames, {NoRegion},
                    MatchButtons, {NoOverride}, {IMG_RATE})
       \/ MatchArgs("InteractionCore.click_if_image_exists", SmallFrames, {NoRegion},
                    MatchButtons, {NoOverride}, {IMG_POSI})
    /\ call_ret = NoRet
    /\ image_cache = <<>>
    /\ files = InitFiles
    /\ last_used = [p \in Paths |-> 0]
    /\ loads = 0
    /\ op_lock = NoThread
    /\ \E s \in {"absent", "True", "False"} :
          key_status = [k \in KeyNames |->
                          IF call_args.fn = "InteractionCore.key" /\ k = call_args.key
                          THEN s ELSE "absent"]
    /\ key_freeze = [k \in KeyNames |-> "absent"]
    /\ op_pc = [t \in Threads |-> "idle"]
    /\ op_loc = [t \in Threads |-> IdleOp]
    /\ injected = NoInject
    /\ op_done = NoOpDone
    /\ ops = 0

GetVirtualKeycode ==
    /\ call_args.fn = "InteractionNormal._get_virtual_keycode"
    /\ call_ret = NoRet
    /\ LET r == _get_virtual_keycode(call_args.key)
       IN  call_ret' = [fn |-> call_args.fn, exc |-> r.exc, code |-> r.code, input |-> <<>>]
    /\ UNCHANGED <<hm_handle, key_status>>

NormalKey ==
    /\ call_args.fn = "InteractionNormal.key"
    /\ call_ret = NoRet
    /\ LET r == InteractionNormal_key(call_args.op, call_args.key, windows, hm_handle)
       IN  /\ call_ret' = [fn |-> call_args.fn, exc |-> r.exc, input |-> r.input,
                           before |-> key_status]
           /\ hm_handle' = r.handle
    /\ UNCHANGED key_status

CoreKey ==
    /\ call_args.fn = "InteractionCore.key"
    /\ call_ret = NoRet
    /\ op_lock = NoThread
    /\ LET r == InteractionCore_key(call_args.op, call_args.key, key_status,
                                    windows, hm_handle)
       IN  /\ call_ret' = [fn |-> call_args.fn, exc |-> r.exc, input |-> r.input,
                           before |-> key_status]
           /\ hm_handle' = r.handle
           /\ key_status' = r.key_status

ForegroundButton ==
    /\ call_args.fn = "ForegroundInput.button"
    /\ call_ret = NoRet
    /\ LET r == ForegroundInput_button(call_args.op, call_args.button)
       IN  call_ret' = [fn |-> call_args.fn, exc |-> r.exc, input |-> r.input]
    /\ UNCHANGED <<hm_handle, key_status>>

CoreButton ==
    /\ call_args.fn = "InteractionCore.button"
    /\ call_ret = NoRet
    /\ op_lock = NoThread
    /\ call_ret' = [fn |-> call_args.fn, exc |-> None,
                    input |-> IF call_args.op = "move_and_click"
                              THEN move_and_click(<<0, 0>>, call_args.button)
                              ELSE drag(<<0, 0>>, <<1, 1>>, call_args.button)]
    /\ UNCHANGED <<hm_handle, key_status>>

-----------------------------------------------------------------------------
(* Values of the later variables while they are not in use                   *)

\* a dict and a value that is no dict, as ConfigManager.config nests them
Dict(items) == [kind |-> "dict", items |-> items]
Leaf(v) == [kind |-> "value", v |-> v]
EmptyDict == Dict(<<>>)

NoWait == [fn |-> None]

IdleUtil ==
    /\ key_held = [k \in Keys |-> FALSE]
    /\ key_frozen = [k \in Keys |-> FALSE]
    /\ config = EmptyDict
    /\ wait_loc = NoWait

-----------------------------------------------------------------------------
(* interaction/core.py: the key operations of one caller, one after another, *)
(* each from its call to its return, with the game window in front           *)

MaxKeyOps == 5      \* key operations called in one run

\* what the window has seen of a key after the messages of an operation
HeldAfter(input_call, held) ==
    IF input_call = "key_down" THEN TRUE
    ELSE IF input_call \in {"key_up", "key_press"} THEN FALSE
    ELSE held

BoolStatus(b) == IF b THEN "True" ELSE "False"

\* key_down, key_up, key_press: the injector call, then _key_status[key]
KeyOperation(op, key) ==
    /\ ops < MaxKeyOps
    /\ op_lock = NoThread
    /\ ops' = ops + 1
    /\ key_held' = [key_held EXCEPT ![key] = HeldAfter(op, @)]
    /\ key_status' = [key_status EXCEPT ![key] = BoolStatus(op = "key_down")]
    /\ call_args' = [fn |-> op, key |-> key]
    /\ call_ret' = NoRet
    /\ UNCHANGED <<key_freeze, key_frozen>>

\* freeze_key: keeps _key_status.get(key, False) in _key_freeze, then sends
\* the key down or up; _key_status is not written
FreezeKey(key, state) ==
    /\ ops < MaxKeyOps
    /\ op_lock = NoThread
    /\ ops' = ops + 1
    /\ key_freeze' = [key_freeze EXCEPT ![key] = BoolStatus(DictGet(key_status, key))]
    /\ key_held' = [key_held EXCEPT ![key] =
                       HeldAfter(IF state = "down" THEN "key_down" ELSE "key_up", @)]
    /\ call_args' = [fn |-> "freeze_key", key |-> key, state |-> state,
                     held_before |-> key_held[key]]
    /\ call_ret' = NoRet
    /\ key_frozen' = [key_frozen EXCEPT ![key] = TRUE]
    /\ UNCHANGED key_status

\* unfreeze_key: sends the key down when _key_freeze.get(key, False), else up
UnfreezeKey(key) ==
    /\ ops < MaxKeyOps
    /\ op_lock = NoThread
    /\ ops' = ops + 1
    /\ key_held' = [key_held EXCEPT ![key] =
                       HeldAfter(IF DictGet(key_freeze, key) THEN "key_down" ELSE "key_up", @)]
    /\ call_ret' = [fn |-> "unfreeze_key", key |-> key, exc |-> None,
                    after_freeze |-> call_args.fn = "freeze_key" /\ call_args.key = key,
                    freeze |-> call_args,
                    frozen |-> key_frozen[key],
                    sent |-> <<IF DictGet(key_freeze, key) THEN "key_down" ELSE "key_up">>,
                    held |-> key_held[key]]
    /\ call_args' = [fn |-> "unfreeze_key", key |-> key]
    /\ key_frozen' = [key_frozen EXCEPT ![key] = FALSE]
    /\ UNCHANGED <<key_status, key_freeze>>

-----------------------------------------------------------------------------
(* Initial values of each subsystem                                         *)

InitTemplates ==
    /\ root_dir \in RootDirs
    /\ templates = NoTemplates
    /\ registered = NoTemplates
    /\ tmpl_result = NoGet

\* the subsystem at rest, in the specifications of the other subsystems
IdleTemplates ==
    /\ root_dir = <<>>
    /\ templates = NoTemplates
    /\ registered = NoTemplates
    /\ tmpl_result = NoGet

InitBackends ==
    /\ fi_window = NoWindow
    /\ sc_window = NoWindow
    /\ lastUse = NoUse

-----------------------------------------------------------------------------
(* SpecWindow: window resolution over every arrangement of windows          *)

\* The module-level WindowHandleManager() resolves the window when the package is
\* imported and raises when there is none: the program starts with a game window.
InitWindow ==
    /\ windows \in WindowLists(MaxWindows)
    /\ _find_window_by_title(windows) # NoHandle
    /\ nextHwnd = Len(windows) + 1
    /\ foreground = NoHandle
    /\ hm_handle = _find_window_by_title(windows)
    /\ wm_result = NoResult

EnvWindow ==
    /\ \/ CloseWindow
       \/ ShowWindow
    /\ wm_result' = NoResult
    /\ UNCHANGED <<hm_handle, fgVars, tmplVars, capVars, opVars, visVars, utilVars>>

NextWindow ==
    \/ EnvWindow
    \/ refresh_window_handle /\ UNCHANGED <<winVars, fgVars, tmplVars, capVars, opVars, visVars, utilVars>>
    \/ get_window_handle /\ UNCHANGED <<winVars, fgVars, tmplVars, capVars, opVars, visVars, utilVars>>
    \/ FindGameWindow /\ UNCHANGED <<winVars, fgVars, tmplVars, capVars, opVars, visVars, utilVars>>

InitSpecWindow == InitWindow /\ InitBackends /\ IdleTemplates /\ InitCapture /\ InitOps /\ IdleVision /\ IdleUtil

SpecWindow == InitSpecWindow /\ [][NextWindow]_vars

-----------------------------------------------------------------------------
(* SpecBackends: the handle and rectangle each backend uses while the game  *)
(* window is closed, opened again and moved                                 *)

InitOneGameWindow ==
    /\ windows = <<Window(1, 1, TRUE, 0)>>
    /\ nextHwnd = 2
    /\ foreground = 1
    /\ hm_handle = 1
    /\ wm_result = NoResult

EnvBackends ==
    /\ \/ CloseWindow
       \/ OpenWindow(GameTitleIds \cup OtherTitleIds)
       \/ MoveWindow
    /\ lastUse' = NoUse
    /\ UNCHANGED <<wmVars, fi_window, sc_window, tmplVars, capVars, opVars, visVars, utilVars>>

NextBackends ==
    \/ EnvBackends
    \/ ForegroundInput_init /\ UNCHANGED <<winVars, wm_result, tmplVars, capVars, opVars, visVars, utilVars>>
    \/ ForegroundInput_move_to /\ UNCHANGED <<winVars, wm_result, tmplVars, capVars, opVars, visVars, utilVars>>
    \/ ScreenCapture_init /\ UNCHANGED <<winVars, wm_result, tmplVars, capVars, opVars, visVars, utilVars>>
    \/ ScreenCapture_grab /\ UNCHANGED <<winVars, wm_result, tmplVars, capVars, opVars, visVars, utilVars>>
    \/ InteractionNormal_move_to /\ UNCHANGED <<winVars, wm_result, tmplVars, capVars, opVars, visVars, utilVars>>

InitSpecBackends == InitOneGameWindow /\ InitBackends /\ IdleTemplates /\ InitCapture /\ InitOps /\ IdleVision /\ IdleUtil

SpecBackends == InitSpecBackends /\ [][NextBackends]_vars

-----------------------------------------------------------------------------
(* SpecTemplates: any sequence of register and get calls on one store       *)

NextTemplates ==
    \/ Register /\ UNCHANGED <<winVars, wmVars, fgVars, capVars, opVars, visVars, utilVars>>
    \/ Get /\ UNCHANGED <<winVars, wmVars, fgVars, capVars, opVars, visVars, utilVars>>

InitSpecTemplates == InitOneGameWindow /\ InitBackends /\ InitTemplates /\ InitCapture /\ InitOps /\ IdleVision /\ IdleUtil

SpecTemplates == InitSpecTemplates /\ [][NextTemplates]_vars

EndsWith(s, suffix) ==
    /\ Len(suffix) <= Len(s)
    /\ \A i \in 1..Len(suffix) : s[Len(s) - Len(suffix) + i] = suffix[i]

StartsWith(s, prefix) ==
    /\ Len(prefix) <= Len(s)
    /\ \A i \in 1..Len(prefix) : s[i] = prefix[i]

\* C10: get(name) returns the descriptor of the most recent register(name, ...):
\* its threshold and roi, and root_dir joined with its relative path; a name
\* registered again is overwritten without an error and the other names keep
\* their descriptors.
C10_GetReturnsLastRegistered ==
    /\ DOMAIN templates = DOMAIN registered
    /\ tmpl_result.name \in DOMAIN registered =>
        LET args == registered[tmpl_result.name]
        IN  /\ tmpl_result.exc = None
            /\ LET t == tmpl_result.ret[1]
               IN  /\ t.name = tmpl_result.name
                   /\ t.threshold = args.threshold
                   /\ t.roi = args.roi
                   /\ t.path = os_path_join(root_dir, args.relative_path)
                   /\ EndsWith(t.path, args.relative_path)
                   /\ args.relative_path[1] \notin PathSeps =>
                        /\ StartsWith(t.path, root_dir)
                        /\ Len(t.path) <= Len(root_dir) + 1 + Len(args.relative_path)
    /\ \A n \in DOMAIN registered :
        /\ templates[n].threshold = registered[n].threshold
        /\ templates[n].roi = registered[n].roi
        /\ EndsWith(templates[n].path, registered[n].relative_path)

\* C10 witness: "x" was registered at least twice (its first arguments are gone),
\* "y" is registered too, and get("x") returned threshold 0.9 with a path that
\* ends in p.png.
C10_Witness ==
    /\ DOMAIN templates = {"x", "y"}
    /\ tmpl_result.name = "x"
    /\ tmpl_result.exc = None
    /\ tmpl_result.ret[1].threshold = 90
    /\ tmpl_result.ret[1].path = <<"t", "\\", "p", ".", "p", "n", "g">>
    /\ templates["y"].threshold = 80

-----------------------------------------------------------------------------
(* SpecCapture: threads calling capture() on one WindowsCapture while the    *)
(* clock runs and the screen changes; the window stays and the OS calls      *)
(* succeed                                                                   *)

NextCapture ==
    \/ \E t \in Threads : capture_call(t) /\ UNCHANGED <<fgVars, tmplVars, opVars, visVars, utilVars>>
    \/ \E t \in Threads : capture_from_cache(t) /\ UNCHANGED <<fgVars, tmplVars, opVars, visVars, utilVars>>
    \/ \E t \in Threads : capture_set_fps_timer(t) /\ UNCHANGED <<fgVars, tmplVars, opVars, visVars, utilVars>>
    \/ \E t \in Threads : capture_attempt(t, {TRUE}) /\ UNCHANGED <<fgVars, tmplVars, opVars, visVars, utilVars>>
    \/ \E t \in Threads : capture_store_frame(t) /\ UNCHANGED <<fgVars, tmplVars, opVars, visVars, utilVars>>
    \/ \E t \in Threads : capture_store_time(t) /\ UNCHANGED <<fgVars, tmplVars, opVars, visVars, utilVars>>
    \/ Tick(ShortHorizon) /\ UNCHANGED <<fgVars, tmplVars, opVars, visVars, utilVars>>
    \/ ScreenChange /\ UNCHANGED <<fgVars, tmplVars, opVars, visVars, utilVars>>

InitSpecCapture == InitOneGameWindow /\ InitBackends /\ IdleTemplates /\ InitCapture /\ InitOps /\ IdleVision /\ IdleUtil

SpecCapture == InitSpecCapture /\ [][NextCapture]_vars

-----------------------------------------------------------------------------
(* SpecCaptureWindow: one thread calling capture() while the clock runs, the *)
(* OS calls fail or succeed and the game window closes and is started again  *)

OneThread == {"t1"}

NextCaptureWindow ==
    \/ \E t \in OneThread : capture_call(t) /\ UNCHANGED <<fgVars, tmplVars, opVars, visVars, utilVars>>
    \/ \E t \in OneThread : capture_from_cache(t) /\ UNCHANGED <<fgVars, tmplVars, opVars, visVars, utilVars>>
    \/ \E t \in OneThread : capture_set_fps_timer(t) /\ UNCHANGED <<fgVars, tmplVars, opVars, visVars, utilVars>>
    \/ \E t \in OneThread : capture_attempt(t, BOOLEAN) /\ UNCHANGED <<fgVars, tmplVars, opVars, visVars, utilVars>>
    \/ \E t \in OneThread : capture_wake(t) /\ UNCHANGED <<fgVars, tmplVars, opVars, visVars, utilVars>>
    \/ \E t \in OneThread : capture_store_frame(t) /\ UNCHANGED <<fgVars, tmplVars, opVars, visVars, utilVars>>
    \/ \E t \in OneThread : capture_store_time(t) /\ UNCHANGED <<fgVars, tmplVars, opVars, visVars, utilVars>>
    \/ Tick(Horizon) /\ UNCHANGED <<fgVars, tmplVars, opVars, visVars, utilVars>>
    \/ ScreenChange /\ UNCHANGED <<fgVars, tmplVars, opVars, visVars, utilVars>>
    \/ EnvCapture /\ UNCHANGED <<fgVars, tmplVars, opVars, visVars, utilVars>>

InitSpecCaptureWindow == InitOneGameWindow /\ InitBackends /\ IdleTemplates /\ InitCapture /\ InitOps /\ IdleVision /\ IdleUtil

SpecCaptureWindow == InitSpecCaptureWindow /\ [][NextCaptureWindow]_vars

-----------------------------------------------------------------------------
(* SpecOps: threads calling the operations of one InteractionCore while the  *)
(* foreground window changes between the game, another program and none      *)

InitGameAndOther ==
    /\ windows = <<Window(1, 1, TRUE, 0), Window(2, 3, TRUE, 0)>>
    /\ nextHwnd = 3
    /\ foreground = 1
    /\ hm_handle = 1
    /\ wm_result = NoResult

NextOps ==
    \/ \E t \in Threads : before_operation(t) /\ UNCHANGED <<fgVars, tmplVars, capVars, visVars, utilVars>>
    \/ \E t \in Threads : before_operation_poll(t) /\ UNCHANGED <<fgVars, tmplVars, capVars, visVars, utilVars>>
    \/ \E t \in Threads : operation_acquire(t) /\ UNCHANGED <<fgVars, tmplVars, capVars, visVars, utilVars>>
    \/ \E t \in Threads : operation_input(t) /\ UNCHANGED <<fgVars, tmplVars, capVars, visVars, utilVars>>
    \/ \E t \in Threads : operation_release(t) /\ UNCHANGED <<fgVars, tmplVars, capVars, visVars, utilVars>>
    \/ \E t \in Threads : operation_delay(t) /\ UNCHANGED <<fgVars, tmplVars, capVars, visVars, utilVars>>
    \/ FocusChange /\ UNCHANGED <<fgVars, tmplVars, capVars, visVars, utilVars>>

InitSpecOps == InitGameAndOther /\ InitBackends /\ IdleTemplates /\ InitCapture /\ InitOps /\ IdleVision /\ IdleUtil

SpecOps == InitSpecOps /\ [][NextOps]_vars

-----------------------------------------------------------------------------
(* SpecOpsWindow: threads calling the operations while the game window is     *)
(* closed and started again and the focus moves; an input-controller call     *)
(* that finds no window raises                                                *)

EnvOps ==
    /\ \/ CloseWindow
       \/ windows = <<>> /\ OpenWindow(GameTitleIds)
    /\ injected' = NoInject
    /\ op_done' = NoOpDone
    /\ UNCHANGED <<wmVars, op_lock, key_status, key_freeze, op_pc, op_loc, ops>>

\* the calls made here: one input-controller call with and without the window
\* handle, one followed by delay() outside the lock, and two calls with a
\* sleep between them
LockCalls ==
    { OpCall("left_click", "", "", "", FALSE), OpCall("middle_click", "", "", "", FALSE),
      OpCall("right_click", "", "", "", FALSE),
      OpCall("move_and_click", "left", "", "", FALSE) }

NextOpsWindow ==
    \/ \E t \in Threads : before_operation_of(t, LockCalls) /\ UNCHANGED <<fgVars, tmplVars, capVars, visVars, utilVars>>
    \/ \E t \in Threads : before_operation_poll(t) /\ UNCHANGED <<fgVars, tmplVars, capVars, visVars, utilVars>>
    \/ \E t \in Threads : operation_acquire(t) /\ UNCHANGED <<fgVars, tmplVars, capVars, visVars, utilVars>>
    \/ \E t \in Threads : operation_input(t) /\ UNCHANGED <<fgVars, tmplVars, capVars, visVars, utilVars>>
    \/ \E t \in Threads : operation_release(t) /\ UNCHANGED <<fgVars, tmplVars, capVars, visVars, utilVars>>
    \/ \E t \in Threads : operation_delay(t) /\ UNCHANGED <<fgVars, tmplVars, capVars, visVars, utilVars>>
    \/ EnvOps /\ UNCHANGED <<fgVars, tmplVars, capVars, visVars, utilVars>>

InitSpecOpsWindow == InitOneGameWindow /\ InitBackends /\ IdleTemplates /\ InitCapture /\ InitOps /\ IdleVision /\ IdleUtil

SpecOpsWindow == InitSpecOpsWindow /\ [][NextOpsWindow]_vars

\* what a thread does from the acquire to the return of its operation
OperationStep(t) ==
    /\ \/ operation_acquire(t)
       \/ operation_input(t)
       \/ operation_release(t)
       \/ operation_delay(t)
    /\ UNCHANGED <<fgVars, tmplVars, capVars, visVars, utilVars>>

\* every thread goes on when it can: the input-controller calls return, the
\* finally clause runs, and acquire() returns once the lock stays free
SpecOpsWindowFair == SpecOpsWindow /\ \A t \in Threads : WF_vars(OperationStep(t))

-----------------------------------------------------------------------------
(* Claims about the operations                                               *)

InCall(t) == op_pc[t] \in {"run", "release"}

\* C1: every operation makes its input-controller calls only while its thread
\* holds the operation lock, and the stretches from acquire to release of two
\* calls never overlap.
C1_InputUnderLock ==
    /\ injected.thread # NoThread => op_lock = injected.thread
    /\ \A t \in Threads : InCall(t) => op_lock = t
    /\ \A t1, t2 \in Threads : (InCall(t1) /\ InCall(t2)) => t1 = t2

\* a thread is in the middle of a composite operation, between two of its
\* input-controller calls, while another thread that has passed the focus
\* guard waits for the lock
C1_Witness ==
    \E t1, t2 \in Threads :
        /\ t1 # t2
        /\ op_pc[t1] = "run"
        /\ op_loc[t1].call.op \in {"move_and_click", "drag"}
        /\ injected.thread = t1
        /\ op_loc[t1].todo # <<>>
        /\ op_pc[t2] = "acquire"

\* C2: whenever an operation makes an input-controller call, the title of the
\* foreground window contains one of the candidate titles.
C2_InputOnlyWithGameInFront ==
    injected.thread # NoThread => TitleMatches(GetWindowText(foreground))

\* C30: an operation called while the foreground window matches no candidate
\* title is not started until a poll of the wrapper has seen a matching
\* foreground title.
C30_StartsAfterMatchingPoll ==
    \A t \in Threads :
        (op_pc[t] \in {"acquire", "run", "release"} /\ op_loc[t].guard[1] = "other")
        => op_loc[t].guard = <<"other", "match">>

-----------------------------------------------------------------------------
(* SpecFrame: one call of WindowsCapture.capture or InteractionCore.capture  *)
(* for each client-area size, region and channel mode                        *)

NextFrame ==
    \/ WindowsCapture_capture
         /\ UNCHANGED <<winVars, wmVars, fgVars, tmplVars, capVars, opVars, utilVars>>
    \/ InteractionCore_capture
         /\ UNCHANGED <<winVars, wmVars, fgVars, tmplVars, capVars, opVars, utilVars>>

InitSpecFrame ==
    InitOneGameWindow /\ InitBackends /\ IdleTemplates /\ InitCapture /\ InitOps /\ InitFrame /\ IdleUtil

SpecFrame == InitSpecFrame /\ [][NextFrame]_vars

\* C12: every frame returned by WindowsCapture.capture and by
\* InteractionCore.capture has height > 0 and width > 0.
C12_FrameDimensionsPositive ==
    (call_ret.fn \in {"WindowsCapture.capture", "InteractionCore.capture"}
       /\ call_ret.exc = None)
    => (call_ret.shape[1] > 0 /\ call_ret.shape[2] > 0)

-----------------------------------------------------------------------------
(* SpecImageCache: load_image called for any paths in any order while a file *)
(* changes on disk                                                           *)

NextImageCache ==
    \/ LoadImage /\ UNCHANGED <<winVars, wmVars, fgVars, tmplVars, capVars, opVars, utilVars>>
    \/ FileChange /\ UNCHANGED <<winVars, wmVars, fgVars, tmplVars, capVars, opVars, utilVars>>

InitSpecImageCache ==
    InitOneGameWindow /\ InitBackends /\ IdleTemplates /\ InitCapture /\ InitOps /\ IdleVision /\ IdleUtil

SpecImageCache == InitSpecImageCache /\ [][NextImageCache]_vars

\* the cached path that was hit or inserted longest ago
LeastRecentlyUsed(cache, used) ==
    CHOOSE p \in CachedPaths(cache) : \A q \in CachedPaths(cache) : used[p] <= used[q]

\* C13: load_image keeps at most maxsize decoded images; a call for a cached
\* path returns the stored buffer without decoding; a call for an uncached path
\* decodes the file and stores the result; and when the cache is full the entry
\* that goes is the one least recently used, by hit or insertion.
C13_LruImageCache ==
    /\ Len(image_cache) <= maxsize
    /\ \A i, j \in DOMAIN image_cache : image_cache[i].path = image_cache[j].path => i = j
    /\ call_ret.fn = "load_image" =>
        LET before == call_ret.before
            path == call_args.path
        IN  IF path \in CachedPaths(before)
            THEN /\ ~call_ret.decoded
                 /\ call_ret.exc = None
                 /\ call_ret.buffer = before[CacheIndex(before, path)].buffer
                 /\ CachedPaths(image_cache) = CachedPaths(before)
                 /\ call_ret.evicted = <<>>
            ELSE /\ call_ret.decoded
                 /\ call_ret.exc # None => image_cache = before
                 /\ call_ret.exc = None =>
                      /\ call_ret.buffer = files[path]
                      /\ path \in CachedPaths(image_cache)
                      /\ image_cache[CacheIndex(image_cache, path)].buffer = call_ret.buffer
                      /\ IF Len(before) = maxsize
                         THEN /\ call_ret.evicted # <<>>
                              /\ call_ret.evicted[1].path
                                    = LeastRecentlyUsed(before, call_ret.used_before)
                              /\ CachedPaths(image_cache)
                                    = (CachedPaths(before) \ {call_ret.evicted[1].path})
                                      \cup {path}
                         ELSE /\ call_ret.evicted = <<>>
                              /\ CachedPaths(image_cache) = CachedPaths(before) \cup {path}

\* a miss on a full cache has evicted an entry that was inserted after one
\* that stays, because the older one was hit in between
C13_Witness ==
    /\ call_ret.fn = "load_image"
    /\ call_ret.evicted # <<>>
    /\ \E i \in DOMAIN image_cache :
         image_cache[i].inserted < call_ret.evicted[1].inserted

-----------------------------------------------------------------------------
(* SpecMatch: each matching function applied once to a frame, a template, a  *)
(* threshold and a region                                                    *)

NextMatch ==
    \/ Match /\ UNCHANGED <<winVars, wmVars, fgVars, tmplVars, capVars, opVars, utilVars>>
    \/ ClickIfExists /\ UNCHANGED <<winVars, wmVars, fgVars, tmplVars, capVars, opVars, utilVars>>
    \/ CheckImageExists /\ UNCHANGED <<winVars, wmVars, fgVars, tmplVars, capVars, opVars, utilVars>>
    \/ FindImagePosition /\ UNCHANGED <<winVars, wmVars, fgVars, tmplVars, capVars, opVars, utilVars>>
    \/ ClickIfImageExists /\ UNCHANGED <<winVars, wmVars, fgVars, tmplVars, capVars, opVars, utilVars>>
    \/ WaitUntilStableCompare /\ UNCHANGED <<winVars, wmVars, fgVars, tmplVars, capVars, opVars, utilVars>>

InitSpecMatch ==
    InitOneGameWindow /\ InitBackends /\ IdleTemplates /\ InitCapture /\ InitOps /\ InitMatch /\ IdleUtil

SpecMatch == InitSpecMatch /\ [][NextMatch]_vars

MatchFns ==
    {"TemplateMatcher.match", "UiDetectors.click_if_exists",
     "InteractionCore.check_image_exists", "InteractionCore.find_image_position",
     "InteractionCore.click_if_image_exists", "InteractionCore.wait_until_stable"}

\* the frame a call matches on: the part inside the ROI or region
SearchedFrame == capture_region(call_args.frame, call_args.region)

\* C14: a template larger than the (ROI- or region-cropped) frame yields no
\* match, for every threshold in [0, 1]: TemplateMatcher.match returns None,
\* find_image_position returns None, and click_if_image_exists returns False
\* without clicking.
C14_OversizedTemplateNoMatch ==
    (/\ call_ret.fn \in {"TemplateMatcher.match", "InteractionCore.find_image_position",
                         "InteractionCore.click_if_image_exists"}
     /\ ScreenTooSmall(SearchedFrame, call_args.templ)
     /\ call_args.threshold \in 0..100)
    => /\ call_ret.exc = None
       /\ call_ret.input = <<>>
       /\ call_ret.fn = "InteractionCore.click_if_image_exists" => call_ret.result = <<FALSE>>
       /\ call_ret.fn # "InteractionCore.click_if_image_exists" => call_ret.result = <<>>

\* C15: wherever a score is compared with a threshold, a score equal to the
\* threshold counts as a match and a score below it does not.
C15_ThresholdInclusive ==
    call_ret.fn \in MatchFns =>
        \A i \in DOMAIN call_ret.compared :
            call_ret.compared[i].matched
                <=> ScoreLE(Threshold(call_ret.compared[i].threshold), call_ret.compared[i].score)

\* a score between 0 and 1
InUnitInterval(s) == s.num >= 0 /\ s.num * s.num <= s.den2

\* C16: every score reported (MatchResult.score, the rate of match_image and
\* of check_image_exists) lies in [0, 1].
C16_ScoreInUnitInterval ==
    call_ret.fn \in MatchFns =>
        /\ \A i \in DOMAIN call_ret.scores : InUnitInterval(call_ret.scores[i])
        /\ \A i \in DOMAIN call_ret.compared : InUnitInterval(call_ret.compared[i].score)

\* n times the deviation of every pixel from the mean of the picture
Centered(a) ==
    [c \in Cells(a) |-> Height(a) * Width(a) * a[c[1]][c[2]] - Total(a)]

\* picture a is picture b made brighter or darker and more or less contrasted:
\* a = gain * b + offset with gain > 0 (b not of one colour)
SameUpToGainAndOffset(a, b) ==
    \E c0 \in Cells(b) :
        /\ Centered(b)[c0] # 0
        /\ Centered(a)[c0] * Centered(b)[c0] > 0
        /\ \A c \in Cells(b) :
              Centered(a)[c] * Centered(b)[c0] = Centered(b)[c] * Centered(a)[c0]

\* the template of the call is a crop of the frame, matched on the whole frame
CropMatched ==
    /\ call_ret.fn = "TemplateMatcher.match"
    /\ call_args.origin # <<>>
    /\ call_args.region = NoRegion

\* the match is the crop's own place, with a score of at least 0.999
FoundAtOrigin ==
    /\ call_ret.result # <<>>
    /\ ScoreLE(Score(999, 1000000), call_ret.result[1].score)
    /\ call_ret.result[1].rect.x = call_args.origin[1]
    /\ call_ret.result[1].rect.y = call_args.origin[2]

\* the crop has more than one colour, and no other place of the frame shows it,
\* not even brighter, darker or with another contrast
CropDistinct ==
    /\ Deviation(call_args.templ) # 0
    /\ \A r \in SubRects(call_args.frame) :
          (r.width = Width(call_args.templ) /\ r.height = Height(call_args.templ)
             /\ <<r.x, r.y>> # call_args.origin)
          => ~SameUpToGainAndOffset(crop_pixels(call_args.frame, r), call_args.templ)

\* C17 as stated: for any frame and any crop of it taken at (dx, dy), match
\* returns a score of at least 0.999 and a rect at (dx, dy).
C17_CropFoundAtOrigin ==
    (CropMatched /\ call_args.threshold \in 0..100) => FoundAtOrigin

\* C17: for any frame and any crop of it taken at (dx, dy) that has more than
\* one colour and appears nowhere else in the frame (up to brightness and
\* contrast), match with a threshold of at most 0.999 and no ROI returns a
\* score of at least 0.999 and a rect at (dx, dy).
C17_DistinctCropFoundAtOrigin ==
    (CropMatched /\ CropDistinct /\ call_args.threshold * 10 <= 999) => FoundAtOrigin

\* a distinct crop taken away from the top left corner has been matched
C17_Witness ==
    /\ CropMatched /\ CropDistinct /\ call_args.threshold * 10 <= 999
    /\ call_args.origin # <<0, 0>>
    /\ FoundAtOrigin

-----------------------------------------------------------------------------
(* SpecInput: one call with a key name or a mouse-button name                *)

InputRest ==
    <<windows, nextHwnd, foreground, wm_result, fgVars, tmplVars, capVars,
      op_lock, key_freeze, op_pc, op_loc, injected, op_done, ops,
      call_args, image_cache, files, last_used, loads, utilVars>>

NextInput ==
    \/ GetVirtualKeycode /\ UNCHANGED InputRest
    \/ NormalKey /\ UNCHANGED InputRest
    \/ CoreKey /\ UNCHANGED InputRest
    \/ ForegroundButton /\ UNCHANGED InputRest
    \/ CoreButton /\ UNCHANGED InputRest
    \/ ClickIfExists /\ UNCHANGED <<winVars, wmVars, fgVars, tmplVars, capVars, opVars, utilVars>>
    \/ ClickIfImageExists /\ UNCHANGED <<winVars, wmVars, fgVars, tmplVars, capVars, opVars, utilVars>>

InitSpecInput ==
    InitOneGameWindow /\ InitBackends /\ IdleTemplates /\ InitCapture /\ InitInput /\ IdleUtil

SpecInput == InitSpecInput /\ [][NextInput]_vars

\* C18: the key lookup ignores case: for every name of VK_CODE and every
\* upper/lower-case spelling of it, _get_virtual_keycode returns the code of
\* that entry.
C18_KeyLookupIgnoresCase ==
    call_ret.fn = "InteractionNormal._get_virtual_keycode" =>
        \A name \in DOMAIN VK_CODE :
            call_args.key \in Spellings(name)
                => (call_ret.exc = None /\ call_ret.code = VK_CODE[name])

\* C19: key_down, key_up and key_press with a key that cannot be resolved fail
\* with the unsupported-key error, post no message and, through
\* InteractionCore, leave the tracked key state as it was.
C19_UnresolvableKeyFails ==
    (call_ret.fn \in {"InteractionNormal.key", "InteractionCore.key"}
       /\ _get_virtual_keycode(call_args.key).exc # None)
    => /\ call_ret.exc = "ValueError"
       /\ call_ret.input = <<>>
       /\ key_status = call_ret.before

\* the button name of the call is one the called class does not support
UnsupportedButton ==
    IF call_ret.fn \in {"ForegroundInput.button", "UiDetectors.click_if_exists"}
    THEN Lower(call_args.button) \notin ForegroundButtons
    ELSE call_args.button \notin {left, right}

\* C20: an operation given a mouse-button name that is not supported fails
\* with the unsupported-button error and has no side effect.
C20_UnsupportedButtonFails ==
    (call_ret.fn \in {"ForegroundInput.button", "InteractionCore.button",
                      "UiDetectors.click_if_exists"}
       /\ UnsupportedButton)
    => (call_ret.exc = "ValueError" /\ call_ret.input = <<>>)

\* the events that press and release a button
ButtonDown(button) == [op |-> IF button = left THEN "left_down" ELSE "right_down"]
ButtonUp(button)   == [op |-> IF button = left THEN "left_up" ELSE "right_up"]

\* C21: for every supported button, drag(origin, destination, button) sends
\* exactly: move to origin, button-down of that button, move to destination,
\* button-up of that button.
C21_DragSequence ==
    (call_ret.fn = "InteractionCore.button" /\ call_args.op = "drag"
       /\ call_args.button \in {left, right})
    => call_ret.input = << [op |-> "move_to", pos |-> <<0, 0>>], ButtonDown(call_args.button),
                           [op |-> "move_to", pos |-> <<1, 1>>], ButtonUp(call_args.button) >>

-----------------------------------------------------------------------------
(* SpecKeyState: key operations called one after another                     *)

KeyStateRest ==
    <<winVars, wmVars, fgVars, tmplVars, capVars, op_lock, op_pc, op_loc, injected,
      op_done, image_cache, files, last_used, loads, config, wait_loc>>

NextKeyState ==
    \/ \E op \in KeyOps, key \in Keys : KeyOperation(op, key) /\ UNCHANGED KeyStateRest
    \/ \E key \in Keys, state \in {"down", "up"} :
          FreezeKey(key, state) /\ UNCHANGED KeyStateRest
    \/ \E key \in Keys : UnfreezeKey(key) /\ UNCHANGED KeyStateRest

InitSpecKeyState ==
    InitOneGameWindow /\ InitBackends /\ IdleTemplates /\ InitCapture /\ InitOps /\ IdleVision /\ IdleUtil

SpecKeyState == InitSpecKeyState /\ [][NextKeyState]_vars

\* C22: freeze_key(key, state) followed by unfreeze_key(key) leaves the key
\* held or released as it was immediately before freeze_key, whatever that
\* state and whatever the freeze state.
C22_UnfreezeRestores ==
    (call_ret.fn = "unfreeze_key" /\ call_ret.after_freeze)
    => key_held[call_ret.key] = call_ret.freeze.held_before

\* C38: after any sequence of completed key_down, key_up, key_press,
\* freeze_key and unfreeze_key calls, for every key that has no freeze_key
\* without a later unfreeze_key, _key_status[key] is True exactly when the last
\* key event the window got for that key was a key-down.
C38_StatusIsWhatWasSent ==
    \A key \in Keys :
        ~key_frozen[key] => (DictGet(key_status, key) <=> key_held[key])

\* C39: unfreeze_key(key) for a key that has no freeze_key without a later
\* unfreeze_key (never frozen, or unfrozen already) sends no key event and
\* leaves the key as it was.
C39_UnfreezeOnlyOnce ==
    (call_ret.fn = "unfreeze_key" /\ ~call_ret.frozen)
    => /\ call_ret.sent = <<>>
       /\ key_held[call_ret.key] = call_ret.held

\* C40: the operation lock is held by a thread only between the acquire and
\* the finally clause of its operation, so it is free again whenever the
\* operation has returned or raised; no thread waits for the lock while it
\* holds it; and a thread that waits for the lock gets it.
C40_LockReleasedAndAcquired ==
    /\ [](\A t \in Threads : op_lock = t <=> InCall(t))
    /\ [](\A t \in Threads :
            (op_done.thread = t /\ op_pc[t] = "idle") => op_lock # t)
    /\ \A t \in Threads : (op_pc[t] = "acquire") ~> (op_lock = t)

\* an operation raised WindowNotFoundError while another thread was waiting
\* for the lock, and the lock is free
C40_Witness ==
    /\ op_done.thread # NoThread
    /\ op_done.exc = "WindowNotFoundError"
    /\ op_lock = NoThread
    /\ \E t \in Threads : t # op_done.thread /\ op_pc[t] = "acquire"

C26_ClickedAtOverride ==
    /\ call_ret.fn = "UiDetectors.click_if_exists"
    /\ call_args.button = left
    /\ call_args.override = <<100>>
    /\ call_ret.result = <<TRUE>>
    /\ Len(call_ret.input) = 2

-----------------------------------------------------------------------------
(* vision/detectors.py: one call of UiDetectors.wait_for with ForegroundInput *)
(* as its input controller. Time passes in input_ctrl.sleep, by the interval  *)
(* asked for; a grab and a match take none, as with a stream of frames that   *)
(* is ready when it is asked.                                                 *)

MaxTimeout == 4
MaxInterval == 3
WaitTemplates == { << <<0, 1>> >>, << <<1>> >> }
WaitThresholds == {50, 100}

\* the deadline test that lets one poll more into the loop
ExpiredLate(time, end_time) == time > end_time + 1
\* the deadline test of wait_for
Expired(time, end_time) == time > end_time

\* what an iteration does after its match, with the deadline looked at first
wait_for_deadline_first(result, time, end_time) ==
    IF Expired(time, end_time) THEN "raise"
    ELSE IF result # <<>> THEN "return" ELSE "sleep"
\* what an iteration of wait_for does after its match
wait_for_poll(result, time, end_time) ==
    IF result # <<>> THEN "return"
    ELSE IF Expired(time, end_time) THEN "raise" ELSE "sleep"

WaitTemplate == Template("t", "t.png", call_args.threshold, NoRegion)

InitWaitFor ==
    /\ \E t \in WaitTemplates, th \in WaitThresholds,
          T \in 0..MaxTimeout, P \in 1..MaxInterval :
           call_args = [fn |-> "UiDetectors.wait_for", templ |-> t, threshold |-> th,
                        timeout |-> T, interval |-> P]
    /\ call_ret = NoRet
    /\ image_cache = <<>>
    /\ files = InitFiles
    /\ last_used = [p \in Paths |-> 0]
    /\ loads = 0
    /\ IdleUtil

WaitRest ==
    <<winVars, wmVars, fgVars, tmplVars, screen, capture_cache, last_capture_time,
      fps_timer, cache_lock, cap_pc, cap_loc, cap_ret, cache_gen, cache_born,
      last_done, os_started, os_gap, calls, opVars, call_args, image_cache, files,
      last_used, loads, key_held, key_frozen, config>>

\* end_time = time.time() + timeout
WaitForCall ==
    /\ call_args.fn = "UiDetectors.wait_for"
    /\ wait_loc = NoWait
    /\ call_ret = NoRet
    /\ wait_loc' = [fn |-> call_args.fn, pc |-> "poll", start |-> now,
                    end_time |-> now + call_args.timeout, polls |-> 0, frame |-> <<>>]
    /\ UNCHANGED <<now, call_ret, WaitRest>>

\* one iteration: the grab, the match, and the return, the raise or the way
\* to the sleep
WaitForPoll ==
    /\ wait_loc # NoWait
    /\ wait_loc.pc = "poll"
    /\ \E f \in SmallFrames :
         LET m == TemplateMatcher_match(f, WaitTemplate, call_args.templ)
             next == wait_for_poll(m.result, now, wait_loc.end_time)
         IN  /\ wait_loc' = [wait_loc EXCEPT !.pc = IF next = "sleep" THEN "sleep" ELSE "done",
                                             !.polls = @ + 1,
                                             !.frame = <<f>>]
             /\ call_ret' =
                  IF next = "return"
                  THEN [fn |-> call_args.fn, exc |-> None, result |-> m.result,
                        elapsed |-> now - wait_loc.start]
                  ELSE IF next = "raise"
                  THEN [fn |-> call_args.fn, exc |-> "MatchTimeoutError",
                        result |-> <<>>, elapsed |-> now - wait_loc.start]
                  ELSE call_ret
    /\ UNCHANGED <<now, WaitRest>>

\* ScreenCapture.grab raises ScreenshotError, which wait_for lets through
WaitForGrabFails ==
    /\ wait_loc # NoWait
    /\ wait_loc.pc = "poll"
    /\ wait_loc' = [wait_loc EXCEPT !.pc = "done"]
    /\ call_ret' = [fn |-> call_args.fn, exc |-> "ScreenshotError", result |-> <<>>,
                    elapsed |-> now - wait_loc.start]
    /\ UNCHANGED <<now, WaitRest>>

\* self.input_ctrl.sleep(interval)
WaitForSleep ==
    /\ wait_loc # NoWait
    /\ wait_loc.pc = "sleep"
    /\ now' = now + call_args.interval
    /\ wait_loc' = [wait_loc EXCEPT !.pc = "poll"]
    /\ UNCHANGED <<call_ret, WaitRest>>

NextWaitFor == WaitForCall \/ WaitForGrabFails \/ WaitForPoll \/ WaitForSleep

InitSpecWaitFor ==
    InitOneGameWindow /\ InitBackends /\ IdleTemplates /\ InitCapture /\ InitOps /\ InitWaitFor

SpecWaitFor == InitSpecWaitFor /\ [][NextWaitFor]_vars

\* the call goes on while it has a step to take
SpecWaitForFair == SpecWaitFor /\ WF_vars(NextWaitFor)

\* whether the frame of the last poll matches the template of the call
LastFrameMatches ==
    /\ wait_loc # NoWait
    /\ wait_loc.frame # <<>>
    /\ TemplateMatcher_match(wait_loc.frame[1], WaitTemplate, call_args.templ).result # <<>>

\* C23: wait_for returns a MatchResult only when the template matched a frame
\* grabbed during the call, namely the frame of its last poll; it goes on to
\* sleep or raises MatchTimeoutError only on a frame that does not match, so it
\* returns at the first poll whose frame matches; and when the frame of the
\* first poll matches it returns that match with no time elapsed, whatever the
\* timeout, because the deadline is examined only after the match.
C23_ReturnsFirstMatch ==
    /\ (call_ret.fn = "UiDetectors.wait_for" /\ call_ret.exc = None)
         => /\ wait_loc.polls >= 1
            /\ LastFrameMatches
            /\ call_ret.result =
                 TemplateMatcher_match(wait_loc.frame[1], WaitTemplate, call_args.templ).result
    /\ (wait_loc # NoWait /\ LastFrameMatches)
         => /\ wait_loc.pc = "done"
            /\ call_ret.exc = None
    /\ (wait_loc # NoWait /\ wait_loc.polls = 1 /\ LastFrameMatches)
         => call_ret.elapsed = 0

\* C23 witness: a call whose deadline had passed returned the match of a frame
\* grabbed at a later poll.
C23_Witness ==
    /\ call_ret.fn = "UiDetectors.wait_for"
    /\ call_ret.exc = None
    /\ wait_loc.polls >= 2
    /\ call_ret.elapsed > call_args.timeout

\* C23 witness of the visible template: with timeout 0 the first poll matched
\* and the call returned it.
C23_VisibleAtOnce ==
    /\ call_ret.fn = "UiDetectors.wait_for"
    /\ call_ret.exc = None
    /\ call_args.timeout = 0
    /\ wait_loc.polls = 1

-----------------------------------------------------------------------------
(* interaction/core.py: one call of InteractionCore.wait_until_stable by the  *)
(* only thread that captures. The clock counts tenths of a second and moves   *)
(* in time.sleep only, by the time asked for: 0.1 s in the loop, and in       *)
(* WindowsCapture.capture 0.1 s after a frame of the wrong shape and 0.5 s    *)
(* after an attempt that raised.                                              *)

MaxStableTimeout == 8       \* tenths of a second
PollSleep == 1              \* time.sleep(0.1)
ShapeRetrySleep == 1        \* time.sleep(0.1)
ErrorRetrySleep == 5        \* time.sleep(0.5)
stable_duration == 25       \* 0.25 s, in hundredths
stable_count == 3
StableThresholds == {99}    \* hundredths
StableFrames == { << <<1, 2>> >>, << <<2, 1>> >> }
NoBreakFunc == "None"

\* the attempts of one WindowsCapture.capture that fail before one succeeds:
\* each is a frame of the wrong shape or an exception
FailedAttempts ==
    UNION { [1..n -> {"shape", "error"}] : n \in 0..(max_retries - 1) }

RECURSIVE RetrySleeps(_)
\* the time slept after the failed attempts; none after the last of max_retries
RetrySleeps(failed) ==
    IF failed = <<>> THEN 0
    ELSE (IF Len(failed) = max_retries THEN 0
          ELSE IF failed[Len(failed)] = "shape" THEN ShapeRetrySleep ELSE ErrorRetrySleep)
         + RetrySleeps(SubSeq(failed, 1, Len(failed) - 1))

\* the timeout test that lets one poll more into the loop
TimedOutLate(time, timeout_timer) == time > timeout_timer + 1
\* the timeout test of wait_until_stable
TimedOut(time, timeout_timer) == time > timeout_timer

\* the exit test with stable_count forgotten
StableOneDuration(stable_timer) == stable_timer * 10 >= stable_duration
\* stable_timer >= stable_duration * stable_count, stable_timer in tenths
StableLongEnough(stable_timer) == stable_timer * 10 >= stable_duration * stable_count

InitStable ==
    /\ \E T \in 0..MaxStableTimeout, th \in StableThresholds,
          f \in {NoBreakFunc, "callable"} :
           call_args = [fn |-> "InteractionCore.wait_until_stable",
                        threshold |-> th, timeout |-> T,
                        additional_break_func |-> f]
    /\ call_ret = NoRet
    /\ image_cache = <<>>
    /\ files = InitFiles
    /\ last_used = [p \in Paths |-> 0]
    /\ loads = 0
    /\ IdleUtil

StableReturn(exc, why, time) ==
    [fn |-> call_args.fn, exc |-> exc, why |-> why, elapsed |-> time - wait_loc.start]

\* timeout_timer = time.time() + timeout, and on to the first capture
StableCall ==
    /\ call_args.fn = "InteractionCore.wait_until_stable"
    /\ wait_loc = NoWait
    /\ call_ret = NoRet
    /\ wait_loc' = [fn |-> call_args.fn, pc |-> "capture", start |-> now,
                    timeout_timer |-> now + call_args.timeout, last_cap |-> <<>>,
                    stable_timer |-> 0, retry_time |-> 0, retried |-> FALSE]
    /\ UNCHANGED <<now, call_ret, WaitRest>>

\* time.sleep(0.1) and the timeout test
StableSleep ==
    /\ wait_loc # NoWait
    /\ wait_loc.fn = "InteractionCore.wait_until_stable"
    /\ wait_loc.pc = "sleep"
    /\ now' = now + PollSleep
    /\ wait_loc' = [wait_loc EXCEPT !.pc = IF TimedOut(now + PollSleep, wait_loc.timeout_timer)
                                           THEN "done" ELSE "capture"]
    /\ call_ret' = IF TimedOut(now + PollSleep, wait_loc.timeout_timer)
                   THEN StableReturn(None, "timeout", now + PollSleep)
                   ELSE call_ret
    /\ UNCHANGED WaitRest

\* self.capture() raises CaptureError after max_retries failed attempts, and
\* wait_until_stable lets it through
StableCaptureRaises ==
    /\ wait_loc # NoWait
    /\ wait_loc.fn = "InteractionCore.wait_until_stable"
    /\ wait_loc.pc = "capture"
    /\ \E failed \in [1..max_retries -> {"shape", "error"}] :
         /\ now' = now + RetrySleeps(failed)
         /\ wait_loc' = [wait_loc EXCEPT !.pc = "done",
                                         !.retry_time = RetrySleeps(failed),
                                         !.retried = TRUE]
         /\ call_ret' = StableReturn("CaptureError", "capture", now + RetrySleeps(failed))
    /\ UNCHANGED WaitRest

\* self.capture() returns a frame: the first one becomes last_cap; a later one
\* is compared with the frame before, then stable_timer, last_cap and
\* additional_break_func
StableCompare ==
    /\ wait_loc # NoWait
    /\ wait_loc.fn = "InteractionCore.wait_until_stable"
    /\ wait_loc.pc = "capture"
    /\ \E failed \in FailedAttempts, curr_img \in StableFrames, break \in BOOLEAN :
         LET first == wait_loc.last_cap = <<>>
             stable == ~first /\ StableFrame(wait_loc.last_cap[1], curr_img, call_args.threshold)
             stable_timer == IF stable THEN wait_loc.stable_timer + 1 ELSE 0
             settled == stable /\ StableLongEnough(stable_timer)
             broken == ~first /\ call_args.additional_break_func # NoBreakFunc /\ break
         IN  /\ (first \/ settled \/ call_args.additional_break_func = NoBreakFunc) => ~break
             /\ now' = now + RetrySleeps(failed)
             /\ wait_loc' = [wait_loc EXCEPT !.pc = IF settled \/ broken THEN "done" ELSE "sleep",
                                             !.stable_timer = stable_timer,
                                             !.last_cap = IF settled THEN @ ELSE <<curr_img>>,
                                             !.retry_time = RetrySleeps(failed),
                                             !.retried = @ \/ failed # <<>>]
             /\ call_ret' = IF settled
                            THEN StableReturn(None, "stable", now + RetrySleeps(failed))
                            ELSE IF broken
                            THEN StableReturn(None, "break", now + RetrySleeps(failed))
                            ELSE call_ret
    /\ UNCHANGED WaitRest

NextStable == StableCall \/ StableSleep \/ StableCaptureRaises \/ StableCompare

InitSpecStable ==
    InitOneGameWindow /\ InitBackends /\ IdleTemplates /\ InitCapture /\ InitOps /\ InitStable

SpecStable == InitSpecStable /\ [][NextStable]_vars

\* the call goes on while it has a step to take
SpecStableFair == SpecStable /\ WF_vars(NextStable)

StableEnded == call_ret.fn = "InteractionCore.wait_until_stable"

StablePolled ==
    /\ wait_loc # NoWait /\ wait_loc.fn = "InteractionCore.wait_until_stable"
    /\ wait_loc.pc = "capture" /\ wait_loc.last_cap # <<>>
    /\ wait_loc'.pc # "done" \/ call_ret'.why \in {"stable", "break"}

\* C35: wait_until_stable without additional_break_func returns before the
\* timeout only when the accumulated stable time has reached
\* stable_duration * stable_count = 0.75 s, that time being 0.1 s for each poll
\* of an unbroken run of polls whose frame is similar to the frame of the poll
\* before: a similar poll adds 0.1 s, a dissimilar poll sets the time to zero,
\* and the call has then lasted at least as long as the run.
C35_StableRunBeforeReturn ==
    /\ []( (StableEnded /\ call_ret.exc = None /\ call_ret.why # "timeout"
              /\ call_args.additional_break_func = NoBreakFunc)
          => /\ call_ret.why = "stable"
             /\ wait_loc.stable_timer * 10 >= stable_duration * stable_count
             /\ call_ret.elapsed >= wait_loc.stable_timer * PollSleep )
    /\ [][ StablePolled =>
             wait_loc'.stable_timer =
                IF StableFrame(wait_loc.last_cap[1],
                               IF wait_loc'.pc = "done" /\ call_ret'.why = "stable"
                               THEN wait_loc.last_cap[1] ELSE wait_loc'.last_cap[1],
                               call_args.threshold)
                THEN wait_loc.stable_timer + 1 ELSE 0 ]_vars

\* the picture stayed the same from the first capture on and the call returned
\* after eight similar polls, at the time the timeout would have ended it
C35_Witness ==
    /\ StableEnded
    /\ call_ret.why = "stable"
    /\ call_args.additional_break_func = NoBreakFunc
    /\ wait_loc.stable_timer = 8
    /\ call_ret.elapsed <= call_args.timeout

C25_LateReturn ==
    /\ StableEnded
    /\ call_ret.why = "timeout"
    /\ call_ret.elapsed > call_args.timeout + PollSleep

-----------------------------------------------------------------------------
(* interaction/core.py: InteractionCore.delay, one call. Durations are in     *)
(* milliseconds and the durations asked for are multiples of 50 ms, so that   *)
(* random_offset * seconds * 0.02 is a whole number of milliseconds.          *)

MaxDelay == 6               \* the longest duration asked for, in steps of 50 ms
animation == 300            \* time.sleep(0.3)
animation2 == 600           \* time.sleep(0.6)
\* the argument seconds: a number of milliseconds or a keyword
Seconds(ms) == [word |-> None, ms |-> ms]
Keyword(word) == [word |-> word, ms |-> 0]
Keywords == {Keyword("animation"), Keyword("2animation")}
\* random.randint(-10, 10)
randint == (-10)..10

\* the time delay() sleeps, given what random.randint returned
delay(seconds, randomize, random_int) ==
    IF seconds = Keyword("animation") THEN animation
    ELSE IF seconds = Keyword("2animation") THEN animation2
    ELSE IF randomize
    THEN LET random_offset == (random_int * seconds.ms * 2) \div 100
             actual_delay == seconds.ms + random_offset
         IN  actual_delay
    ELSE seconds.ms

InitDelay ==
    /\ \E s \in Keywords \cup { Seconds(k * 50) : k \in 0..MaxDelay }, r \in BOOLEAN :
           call_args = [fn |-> "InteractionCore.delay", seconds |-> s, randomize |-> r]
    /\ call_ret = NoRet
    /\ image_cache = <<>>
    /\ files = InitFiles
    /\ last_used = [p \in Paths |-> 0]
    /\ loads = 0
    /\ IdleUtil

Delay ==
    /\ call_args.fn = "InteractionCore.delay"
    /\ call_ret = NoRet
    /\ \E random_int \in randint :
         call_ret' = [fn |-> call_args.fn, exc |-> None,
                      slept |-> delay(call_args.seconds, call_args.randomize, random_int),
                      random_int |-> IF call_args.seconds \notin Keywords /\ call_args.randomize
                                     THEN <<random_int>> ELSE <<>>]
    /\ UNCHANGED <<now, wait_loc, WaitRest>>

NextDelay == Delay

InitSpecDelay ==
    InitOneGameWindow /\ InitBackends /\ IdleTemplates /\ InitCapture /\ InitOps /\ InitDelay

SpecDelay == InitSpecDelay /\ [][NextDelay]_vars

\* C27: delay(seconds, randomize=True) sleeps between 0.9 and 1.1 times
\* seconds, and delay(seconds) without jitter sleeps exactly seconds.
C27_JitterWithinTenPercent ==
    (call_ret.fn = "InteractionCore.delay" /\ call_args.seconds \notin Keywords)
    => IF call_args.randomize
       THEN /\ 10 * call_ret.slept >= 9 * call_args.seconds.ms
            /\ 10 * call_ret.slept <= 11 * call_args.seconds.ms
       ELSE call_ret.slept = call_args.seconds.ms

-----------------------------------------------------------------------------
(* src/utils/config_manager.py: ConfigManager.set and get on one manager     *)
(* whose file holds an empty object. A key is a string of characters, a      *)
(* config a Dict of items by name or a Leaf, a value that is no dict.        *)

MaxSets == 2                \* set calls in one run
KeyChars == {"a", "."}
\* the keys of up to three characters
ConfigKeys == UNION { [1..n -> KeyChars] : n \in 1..3 }
ConfigValues == {1, 2}
NoDefault == [kind |-> "None"]

RECURSIVE split(_, _)
\* str.split(sep): the pieces between the separators, empty ones too
split(s, sep) ==
    IF \A i \in DOMAIN s : s[i] # sep THEN <<s>>
    ELSE LET i == CHOOSE j \in DOMAIN s : s[j] = sep /\ \A l \in 1..(j - 1) : s[l] # sep
         IN  <<SubSeq(s, 1, i - 1)>> \o split(SubSeq(s, i + 1, Len(s)), sep)

RECURSIVE config_get(_, _, _)
\* the loop of ConfigManager.get over the names that are left
config_get(value, keys, default) ==
    IF keys = <<>> THEN value
    ELSE IF value.kind = "dict" /\ keys[1] \in DOMAIN value.items
    THEN config_get(value.items[keys[1]], Tail(keys), default)
    ELSE default

RECURSIVE config_set(_, _, _)
\* the loop of ConfigManager.set over the names that are left, and the
\* assignment: `k not in config', `config[k] = {}' and `config[k] = value'
\* raise TypeError on a value that is no dict
config_set(config_in, keys, value) ==
    IF config_in.kind # "dict" THEN [exc |-> "TypeError", config |-> config_in]
    ELSE IF Len(keys) = 1
    THEN [exc |-> None, config |-> Dict((keys[1] :> Leaf(value)) @@ config_in.items)]
    ELSE LET k == keys[1]
             child == IF k \in DOMAIN config_in.items THEN config_in.items[k] ELSE EmptyDict
             r == config_set(child, Tail(keys), value)
         IN  [exc |-> r.exc, config |-> Dict((k :> r.config) @@ config_in.items)]

\* ConfigManager.set(key, value)
ConfigSet(key, value) ==
    /\ ops < MaxSets
    /\ ops' = ops + 1
    /\ LET r == config_set(config, split(key, "."), value)
       IN  /\ config' = r.config
           /\ call_ret' = [fn |-> "ConfigManager.set", exc |-> r.exc,
                           ret |-> IF r.exc = None THEN <<TRUE>> ELSE <<>>]
    /\ call_args' = [fn |-> "ConfigManager.set", key |-> key, value |-> value]

\* ConfigManager.get(key) as the call that follows set(key, value)
ConfigGet ==
    /\ call_args.fn = "ConfigManager.set"
    /\ call_ret' = [fn |-> "ConfigManager.get", exc |-> None,
                    ret |-> <<config_get(config, split(call_args.key, "."), NoDefault)>>]
    /\ call_args' = [fn |-> "ConfigManager.get", key |-> call_args.key,
                     value |-> call_args.value]
    /\ UNCHANGED <<ops, config>>

ConfigRest ==
    <<winVars, wmVars, fgVars, tmplVars, capVars, op_lock, key_status, key_freeze,
      op_pc, op_loc, injected, op_done, image_cache, files, last_used, loads,
      key_held, key_frozen, wait_loc>>

NextConfig ==
    \/ \E key \in ConfigKeys, value \in ConfigValues :
         ConfigSet(key, value) /\ UNCHANGED ConfigRest
    \/ ConfigGet /\ UNCHANGED ConfigRest

InitSpecConfig ==
    InitOneGameWindow /\ InitBackends /\ IdleTemplates /\ InitCapture /\ InitOps /\ IdleVision /\ IdleUtil

SpecConfig == InitSpecConfig /\ [][NextConfig]_vars

\* C28: set(key, value) returns True, and the get(key) that follows it returns
\* that value, for every dotted key and value after any earlier set calls.
C28_SetThenGet ==
    /\ call_ret.fn = "ConfigManager.set" => (call_ret.exc = None /\ call_ret.ret = <<TRUE>>)
    /\ call_ret.fn = "ConfigManager.get" => call_ret.ret = <<Leaf(call_args.value)>>

-----------------------------------------------------------------------------
(* src/actions/click_action.py, key_action.py: ClickAction.execute and       *)
(* KeyAction.execute, one call. The arguments are Python values of several   *)
(* types; the call of the input controller returns or raises.                *)

\* Python values with their types, numbers and booleans as they are written
PyInt(v)   == [type |-> "int", v |-> <<v>>]
PyBool(v)  == [type |-> "bool", v |-> <<v>>]
PyFloat(v) == [type |-> "float", v |-> <<v>>]
PyStr(v)   == [type |-> "str", v |-> v]
NoneValue == [type |-> "NoneType", v |-> <<>>]

\* isinstance(value, int): bool is a subclass of int
IsInt(value) == value.type \in {"int", "bool"}
\* not value
Falsy(value) ==
    \/ value = NoneValue
    \/ value.type = "str" /\ value.v = <<>>
    \/ value \in {PyInt("0"), PyFloat("0.0")}
    \/ value = PyBool("False")

press == <<"p", "r", "e", "s", "s">>
release == <<"r", "e", "l", "e", "a", "s", "e">>
press_release == press \o <<"_">> \o release
hold == <<"h", "o", "l", "d">>

Coordinates == {PyInt("0"), PyInt("-1"), PyBool("True"), PyFloat("1.5"), PyStr(<<"1">>), NoneValue}
ActionButtons == {PyStr(left), PyStr(right), PyStr(middle), PyStr(LEFT), PyStr(side), NoneValue}
ActionKeys == {PyStr(<<"a">>), PyStr(<<>>), PyStr(<<" ">>), NoneValue, PyInt("0"), PyInt("5")}
KeyActions == {PyStr(press), PyStr(release), PyStr(press_release), PyStr(hold), PyStr(<<>>), NoneValue}

\* a validate that accepts everything
validate_anything(x, y, button) == TRUE
\* ClickAction.validate
ClickAction_validate(x, y, button) ==
    IF ~IsInt(x) \/ ~IsInt(y) THEN FALSE
    ELSE IF button \notin {PyStr(left), PyStr(right), PyStr(middle)} THEN FALSE
    ELSE TRUE

\* ClickAction.execute: what it returns and the calls of the input controller
ClickAction_execute(x, y, button, raises) ==
    IF ~ClickAction_validate(x, y, button) THEN [ret |-> FALSE, input |-> <<>>]
    ELSE [ret |-> ~raises,
          input |-> <<[op |-> "click", args |-> <<x, y, button>>]>>]

\* KeyAction.validate
KeyAction_validate(key, action) ==
    IF Falsy(key) THEN FALSE
    ELSE IF action \notin {PyStr(press), PyStr(release), PyStr(press_release)} THEN FALSE
    ELSE TRUE

\* KeyAction.execute
KeyAction_execute(key, action, raises) ==
    IF ~KeyAction_validate(key, action) THEN [ret |-> FALSE, input |-> <<>>]
    ELSE [ret |-> ~raises,
          input |-> <<[op |-> IF action = PyStr(press) THEN "key_press"
                              ELSE IF action = PyStr(release) THEN "key_release"
                              ELSE "key_press_release",
                       args |-> <<key>>]>>]

InitActions ==
    /\ \/ \E x, y \in Coordinates, button \in ActionButtons, raises \in BOOLEAN :
            call_args = [fn |-> "ClickAction.execute", x |-> x, y |-> y,
                         button |-> button, raises |-> raises]
       \/ \E key \in ActionKeys, action \in KeyActions, raises \in BOOLEAN :
            call_args = [fn |-> "KeyAction.execute", key |-> key, action |-> action,
                         raises |-> raises]
    /\ call_ret = NoRet
    /\ image_cache = <<>>
    /\ files = InitFiles
    /\ last_used = [p \in Paths |-> 0]
    /\ loads = 0
    /\ IdleUtil

ClickActionExecute ==
    /\ call_args.fn = "ClickAction.execute"
    /\ call_ret = NoRet
    /\ LET r == ClickAction_execute(call_args.x, call_args.y, call_args.button,
                                    call_args.raises)
       IN  call_ret' = [fn |-> call_args.fn, exc |-> None, ret |-> <<r.ret>>,
                        input |-> r.input]
    /\ UNCHANGED <<now, wait_loc, WaitRest>>

KeyActionExecute ==
    /\ call_args.fn = "KeyAction.execute"
    /\ call_ret = NoRet
    /\ LET r == KeyAction_execute(call_args.key, call_args.action, call_args.raises)
       IN  call_ret' = [fn |-> call_args.fn, exc |-> None, ret |-> <<r.ret>>,
                        input |-> r.input]
    /\ UNCHANGED <<now, wait_loc, WaitRest>>

NextActions == ClickActionExecute \/ KeyActionExecute

InitSpecActions ==
    InitOneGameWindow /\ InitBackends /\ IdleTemplates /\ InitCapture /\ InitOps /\ InitActions

SpecActions == InitSpecActions /\ [][NextActions]_vars

\* the arguments validate is to accept: x and y integers and the button one
\* of left, right, middle; the key not empty and the action one of press,
\* release, press_release
AcceptableArgs ==
    IF call_args.fn = "ClickAction.execute"
    THEN /\ call_args.x.type \in {"int", "bool"}
         /\ call_args.y.type \in {"int", "bool"}
         /\ call_args.button.type = "str"
         /\ call_args.button.v \in {left, right, middle}
    ELSE /\ call_args.key \notin {PyStr(<<>>), NoneValue, PyInt("0")}
         /\ call_args.action.type = "str"
         /\ call_args.action.v \in {press, release, press_release}

\* C29: ClickAction.execute and KeyAction.execute call the input controller
\* only when validate accepts the arguments, and then once; when validate
\* rejects them they return False without a call; and they return True only
\* when that call was made and returned without raising.
C29_ValidateBeforeInput ==
    call_ret.fn \in {"ClickAction.execute", "KeyAction.execute"}
    => /\ call_ret.exc = None
       /\ ~AcceptableArgs => (call_ret.ret = <<FALSE>> /\ call_ret.input = <<>>)
       /\ AcceptableArgs => Len(call_ret.input) = 1
       /\ call_ret.ret = <<TRUE>> <=> (AcceptableArgs /\ ~call_args.raises)

\* C29 witness: the arguments were accepted, the call of the input controller
\* raised, and execute returned False.
C29_Witness ==
    /\ call_ret.fn = "KeyAction.execute"
    /\ call_args.key = PyStr(<<"a">>)
    /\ call_args.action = PyStr(press_release)
    /\ call_args.raises
    /\ Len(call_ret.input) = 1
    /\ call_ret.input[1].op = "key_press_release"
    /\ call_ret.ret = <<FALSE>>

-----------------------------------------------------------------------------
(* Claims about capture()                                                    *)

ReturnedFrame(r) == r.kind \in {"ttl", "fps", "os"}
FromCache(r) == r.kind \in {"ttl", "fps"}
Maximum(a, b) == IF a >= b THEN a ELSE b

C5_FpsCeiling ==
    /\ cap_ret.limited_at_call => (FromCache(cap_ret) /\ cap_ret.os_calls = 0)
    /\ os_gap >= 0 => ~(os_gap * max_fps < TicksPerSecond)

\* C6: a capture that fails raises CaptureError, and only after all
\* max_retries attempts have failed.
C6_CaptureErrorAfterAllAttempts ==
    cap_ret.kind = "exc" =>
        /\ cap_ret.exc = "CaptureError"
        /\ cap_ret.attempts = max_retries

\* C7: a frame returned from the cache was produced by a successful OS capture
\* that started less than max(cacheTTL, 1/max_fps) before the call.
C7_CachedFrameIsRecent ==
    FromCache(cap_ret) =>
        /\ cap_ret.gen > 0
        /\ (cap_ret.ct - cap_ret.born) * max_fps
              < Maximum(cap_ret.limit * max_fps, TicksPerSecond)

\* C31: a capture call that reaches the OS makes at most max_retries attempts,
\* and every failed attempt other than the max_retries-th is followed by a
\* sleep and a next attempt: a call that returns a captured frame after n
\* attempts has slept n - 1 times, and a call that fails has made all
\* max_retries attempts and slept max_retries - 1 times.
C31_RetriesWithSleep ==
    /\ \A t \in Threads : cap_loc[t].attempts <= max_retries
    /\ cap_ret.attempts > 0 =>
        /\ cap_ret.attempts <= max_retries
        /\ cap_ret.kind = "os" => cap_ret.sleeps = cap_ret.attempts - 1
        /\ cap_ret.kind = "exc" =>
            /\ cap_ret.attempts = max_retries
            /\ cap_ret.sleeps = max_retries - 1

\* C32: the cached frame and its timestamp go together for every reader: a
\* call that decided from self._last_capture_time that the cache is fresh
\* receives a copy of the frame of the capture that wrote that timestamp,
\* under any interleaving of the threads.
C32_FrameOfTheTimestamp ==
    cap_ret.kind = "ttl" => cap_ret.gen = cap_ret.stamp

\* C37: capture never returns the all-zero placeholder frame the constructor
\* puts in the cache: every frame a call returns, fresh or from the cache, is
\* the result of a successful OS capture.
C37_NeverThePlaceholder ==
    ReturnedFrame(cap_ret) =>
        /\ cap_ret.px # ZeroFrame
        /\ cap_ret.kind = "os" \/ cap_ret.gen > 0

\* C33: get_handle returns the cached handle without enumerating the windows
\* when that handle is a live window; otherwise it resolves the window afresh
\* exactly once and returns what the resolution found, a live window, or raises
\* WindowNotFoundError when the resolution found none.
C33_CachedWhileLive ==
    wm_result.op = "get_handle" =>
        IF IsWindow(wm_result.before)
        THEN /\ wm_result.enumerated = 0
             /\ wm_result.exc = None
             /\ wm_result.ret = wm_result.before
             /\ wm_result.after = wm_result.before
        ELSE /\ wm_result.enumerated = 1
             /\ IF _find_window_by_title(windows) = NoHandle
                THEN /\ wm_result.exc = "WindowNotFoundError"
                     /\ wm_result.ret = NoHandle
                ELSE /\ wm_result.exc = None
                     /\ wm_result.ret = _find_window_by_title(windows)
                     /\ wm_result.after = wm_result.ret
                     /\ IsWindow(wm_result.ret)

\* the cached window was closed and get_handle found the other game window
C33_Witness ==
    /\ wm_result.op = "get_handle"
    /\ ~IsWindow(wm_result.before)
    /\ wm_result.enumerated = 1
    /\ wm_result.exc = None
    /\ wm_result.ret # wm_result.before
    /\ IsWindow(wm_result.ret)

C36_OverrideReplacesThreshold ==
    LET best == TemplateMatcher_match(call_args.frame, ArgTemplate, call_args.templ).score
    IN  ( /\ call_ret.fn = "UiDetectors.click_if_exists"
          /\ call_args.override # NoOverride
          /\ call_args.button \in ForegroundButtons
          /\ best # <<>> )
        => ( ( /\ call_ret.result = <<TRUE>>
               /\ Len(call_ret.input) = 2
               /\ call_ret.input[2].op = "click" )
             <=> ScoreLE(Threshold(call_args.override[1]), best[1]) )

\* C11: every Template descriptor the store holds has a threshold in [0, 1]
\* (thresholds are counted in hundredths).
C11_ThresholdInUnitInterval ==
    \A n \in DOMAIN templates :
        templates[n].threshold >= 0 /\ templates[n].threshold <= 100

-----------------------------------------------------------------------------
(* Claims about window resolution and window handles                        *)

\* Case-insensitive containment, stated character by character.
ContainsIgnoringCase(sub, s) ==
    \E off \in 0..(Len(s) - Len(sub)) :
        \A i \in 1..Len(sub) : LowerChar(s[off + i]) = LowerChar(sub[i])

\* The windows of ws a resolution may select: visible, title containing a candidate.
Eligible(ws) ==
    { i \in DOMAIN ws :
        /\ ws[i].visible
        /\ \E c \in DOMAIN window_titles :
              ContainsIgnoringCase(window_titles[c], TitleText[ws[i].title]) }

\* C9: a resolution returns the first visible window in enumeration order whose
\* title contains a candidate title case-insensitively (an invisible window is
\* never selected); when there is none it raises WindowNotFoundError and the
\* cached handle stays what it was.
C9_FirstVisibleMatch ==
    wm_result.enumerated = 1 =>
        LET el == Eligible(windows)
        IN  IF el = {}
            THEN /\ wm_result.exc = "WindowNotFoundError"
                 /\ wm_result.after = wm_result.before
                 /\ hm_handle = wm_result.before
            ELSE LET first == CHOOSE i \in el : \A j \in el : i <= j
                 IN  /\ wm_result.exc = None
                     /\ wm_result.op # "refresh_handle" =>
                            wm_result.ret = windows[first].hwnd
                     /\ wm_result.op # "find_game_window" =>
                            hm_handle = windows[first].hwnd

\* C9 witness: a resolution passed over an invisible window whose title matches
\* and took the later visible one whose title matches only case-insensitively.
C9_Witness ==
    /\ wm_result.op = "refresh_handle"
    /\ wm_result.exc = None
    /\ Len(windows) = 2
    /\ ~windows[1].visible
    /\ windows[1].title = 1
    /\ windows[2].title = 2
    /\ hm_handle = windows[2].hwnd

\* C8 (as claimed): every capture or inject call uses a handle that is a live
\* window during the call and the rectangle that window has during the call.
C8_HandleValidatedInCall ==
    lastUse # NoUse =>
        /\ IsWindow(lastUse.hwnd)
        /\ lastUse.left = WindowOf(lastUse.hwnd).left

====
